---- MODULE Spec2Model ----
(***************************************************************************)
(* A model of the TVM web viewer: the stack dump decoder                   *)
(* (src/src/runner/stack.ts), the stack-effect notation parser, the        *)
(* opcode classifier and the step browser of src/src/App.tsx, and the      *)
(* locator resolver linkToTx with mcSeqnoByShard and txToLinks of the      *)
(* runner utilities (src/unnamed/part_000).                                *)
(*                                                                         *)
(* Strings are TLA+ strings; TLC evaluates Len, SubSeq and \o on them, so  *)
(* every string function of the code is modelled character by character.  *)
(***************************************************************************)
EXTENDS Integers, Sequences, FiniteSets, TLC

VARIABLES
    line,       \* stack.ts: the argument of parseStack
    decoded,    \* stack.ts: the outcome of parseStack(line)
    signature,  \* App.tsx: the argument of parseOpcodeStackDiff
    stackDiff,  \* App.tsx: the outcome of parseOpcodeStackDiff(signature)
    opcodes,                  \* App.tsx:118
    selectedOpcode,           \* App.tsx:119, <<>> is null
    matchingOpcodes,          \* App.tsx:120
    selectedOpcodeStackDiff,  \* App.tsx:121
    hexCode,    \* App.tsx:325: the argument of the latest handleOpcodeClick
    clicked,    \* whether handleOpcodeClick has been called
    crashed,    \* the handler that threw, "" while none has
    catalogDoc,       \* the document served at OPCODES_JSON_URL (App.tsx:64)
    fetches,          \* the calls of fetch(OPCODES_JSON_URL) in flight
    emulationResult,  \* App.tsx:112, <<>> is undefined, else <<computeLogs>>
    selectedStep,     \* App.tsx:116
    views,            \* the calls of viewTransaction, in the order they were made
    linkState,        \* App.tsx:106, the state link: the text of the input
    testnetState,     \* App.tsx:102, the state testnet
    location,         \* the parameters testnet and tx of window.location
    reference,      \* utils: the argument txLink of the linkToTx calls
    forcedTestnet,  \* utils: the argument forcedTestnet, <<>> is undefined
    index,          \* what the toncenter index of each network answers
    frame,          \* the locals of the running linkToTx call and its position
    trace,          \* the lookups and rate limit waits of the running call
    inFlight,       \* the networks with a fetchTransactions in flight
    results,        \* the outcomes of the linkToTx calls that have ended
    shard,          \* utils: the argument shard of mcSeqnoByShard
    response,       \* utils: what the request of /api/v3/blocks comes back with
    seqnoResult     \* the outcome of mcSeqnoByShard(shard)

stackVars == <<line, decoded>>

diffVars == <<signature, stackDiff>>

classifierVars ==
    <<opcodes, selectedOpcode, matchingOpcodes, selectedOpcodeStackDiff, hexCode,
      clicked, crashed, fetches>>

browserVars ==
    <<catalogDoc, emulationResult, selectedStep, views, linkState, testnetState,
      location>>

appVars == <<classifierVars, browserVars>>

resolverVars == <<reference, forcedTestnet, index, frame, trace, inFlight, results>>

shardVars == <<shard, response, seqnoResult>>

lookupVars == <<resolverVars, shardVars>>

vars == <<stackVars, diffVars, appVars, lookupVars>>

-----------------------------------------------------------------------------
(* JavaScript string primitives, character by character.                   *)

\* the character at position i (1-based), "" outside the string
Char(s, i) == IF 1 <= i /\ i <= Len(s) THEN SubSeq(s, i, i) ELSE ""

\* String.prototype.slice(from0, to0) with 0-based, already clamped indices.
Slice(s, from0, to0) == IF to0 <= from0 THEN "" ELSE SubSeq(s, from0 + 1, to0)

\* word.slice(n, -1)
SliceToLast(s, n) == Slice(s, n, Len(s) - 1)

StartsWith(s, p) == Len(s) >= Len(p) /\ SubSeq(s, 1, Len(p)) = p

EndsWith(s, p) == Len(s) >= Len(p) /\ SubSeq(s, Len(s) - Len(p) + 1, Len(s)) = p

\* String.prototype.includes
Includes(s, p) ==
    \E i \in 1..(Len(s) - Len(p) + 1) : SubSeq(s, i, i + Len(p) - 1) = p

\* the regular expression class \s (the members a trace line can hold)
WhiteSpace == {" ", "\t", "\n"}

IsWs(c) == c \in WhiteSpace

Digits == "0123456789"

\* the characters of the string s
CharsOf(s) == {Char(s, k) : k \in 1..Len(s)}

\* the position in s (1-based) of each character of s
PositionIn(s) == [c \in CharsOf(s) |-> CHOOSE k \in 1..Len(s) : Char(s, k) = c]

DigitSet == CharsOf(Digits)

IsDigit(c) == c \in DigitSet

RECURSIVE Concat(_)
Concat(ss) == IF ss = <<>> THEN "" ELSE Head(ss) \o Concat(Tail(ss))

RECURSIVE LeadingWs(_, _)
\* the number of white space characters of s from position i on
LeadingWs(s, i) ==
    IF i <= Len(s) /\ IsWs(Char(s, i)) THEN 1 + LeadingWs(s, i + 1) ELSE 0

RECURSIVE TrailingWs(_, _)
TrailingWs(s, i) ==
    IF i >= 1 /\ IsWs(Char(s, i)) THEN 1 + TrailingWs(s, i - 1) ELSE 0

\* String.prototype.trim
Trim(s) ==
    LET a == LeadingWs(s, 1)
    IN  IF a = Len(s) THEN "" ELSE SubSeq(s, a + 1, Len(s) - TrailingWs(s, Len(s)))

\* The length of the separator that starts at position i of s, 0 when none
\* does: "ws" is /\s+/, "wscomma" is /\s+|,/, any other kind is the literal
\* separator itself.
SepLen(kind, s, i) ==
    IF kind = "ws" THEN LeadingWs(s, i)
    ELSE IF kind = "wscomma"
         THEN IF LeadingWs(s, i) > 0 THEN LeadingWs(s, i)
              ELSE IF Char(s, i) = "," THEN 1 ELSE 0
         ELSE IF i + Len(kind) - 1 <= Len(s) /\ SubSeq(s, i, i + Len(kind) - 1) = kind
              THEN Len(kind) ELSE 0

RECURSIVE SplitFrom(_, _, _, _, _)
SplitFrom(kind, s, i, cur, acc) ==
    IF i > Len(s) THEN Append(acc, cur)
    ELSE LET n == SepLen(kind, s, i)
         IN  IF n > 0 THEN SplitFrom(kind, s, i + n, "", Append(acc, cur))
             ELSE SplitFrom(kind, s, i + 1, cur \o Char(s, i), acc)

\* String.prototype.split: the pieces between the separators, empty pieces
\* included
Split(kind, s) == SplitFrom(kind, s, 1, "", <<>>)

RECURSIVE ReplaceChar(_, _, _)
\* s.replace(/c/g, by) for a one-character pattern
ReplaceChar(s, c, by) ==
    IF s = "" THEN ""
    ELSE (IF Char(s, 1) = c THEN by ELSE Char(s, 1))
         \o ReplaceChar(SubSeq(s, 2, Len(s)), c, by)

\* all sequences over S of length at most n
SeqsUpTo(S, n) == UNION {[1..k -> S] : k \in 0..n}

-----------------------------------------------------------------------------
(* The stack dump decoder, src/src/runner/stack.ts.                        *)

\* A StackElement. JavaScript tells the variants apart by their run-time
\* type; here t is the variant, i the integer of an Integer, s the text of an
\* unrecognized word or the payload of a cell, e the elements of a tuple.
Val(t, i, s, e) == [t |-> t, i |-> i, s |-> s, e |-> e]

NullV == Val("Null", 0, "", <<>>)

IntV(n) == Val("Integer", n, "", <<>>)

TupleV(es) == Val("Tuple", 0, "", es)

Unrecognized(w) == Val("Unrecognized", 0, w, <<>>)

\* Cell.fromBoc(Buffer.from(payload, 'hex'))[0] of @ton/core: a payload is the
\* serialization of a cell, of a cell holding exactly 267 bits and no
\* reference, or of nothing, and then the call throws.
BocKind(payload) ==
    IF payload = "b5a1" THEN "cell"
    ELSE IF payload = "b5ad" THEN "address"
    ELSE "throws"

\* the value of the digit string s in the given base, digits drawn from ds
RECURSIVE RadixVal(_, _, _)
RadixVal(s, base, ds) ==
    IF s = "" THEN 0
    ELSE RadixVal(SubSeq(s, 1, Len(s) - 1), base, ds) * base
         + PositionIn(ds)[Char(s, Len(s))] - 1

AllIn(s, ds) == \A k \in 1..Len(s) : Char(s, k) \in CharsOf(ds)

\* BigInt(word): <<TRUE, n>> when word is an integer literal (StringToBigInt:
\* white space trimmed, the empty string is 0, a signed decimal, or an
\* unsigned 0x / 0o / 0b literal), <<FALSE, 0>> when BigInt throws.
BigIntOf(word) ==
    LET w    == Trim(word)
        body == SubSeq(w, 2, Len(w))
        rest == SubSeq(w, 3, Len(w))
    IN  IF w = "" THEN <<TRUE, 0>>
        ELSE IF AllIn(w, Digits) THEN <<TRUE, RadixVal(w, 10, Digits)>>
        ELSE IF Char(w, 1) = "-" /\ body # "" /\ AllIn(body, Digits)
             THEN <<TRUE, 0 - RadixVal(body, 10, Digits)>>
        ELSE IF Char(w, 1) = "+" /\ body # "" /\ AllIn(body, Digits)
             THEN <<TRUE, RadixVal(body, 10, Digits)>>
        ELSE IF StartsWith(w, "0x") /\ rest # "" /\ AllIn(rest, "0123456789abcdef")
             THEN <<TRUE, RadixVal(rest, 16, "0123456789abcdef")>>
        ELSE IF StartsWith(w, "0b") /\ rest # "" /\ AllIn(rest, "01")
             THEN <<TRUE, RadixVal(rest, 2, "01")>>
        ELSE IF StartsWith(w, "0o") /\ rest # "" /\ AllIn(rest, "01234567")
             THEN <<TRUE, RadixVal(rest, 8, "01234567")>>
        ELSE <<FALSE, 0>>

\* one of the four cell flavours: the payload starts after the prefix and
\* ends before the last character; a payload that does not decode is caught
\* and the word itself is returned
CellFlavour(word, prefixLen, flavour) ==
    LET payload == SliceToLast(word, prefixLen)
        kind    == BocKind(payload)
    IN  IF kind = "throws" THEN Unrecognized(word)
        ELSE IF flavour = "Slice" /\ kind = "address" THEN Val("Address", 0, payload, <<>>)
        ELSE Val(flavour, 0, payload, <<>>)

RECURSIVE parseStackElement(_)
parseStackElement(word) ==
    IF word = "()" THEN NullV
    ELSE IF StartsWith(word, "(") /\ EndsWith(word, ")")
         THEN TupleV(<<parseStackElement(SliceToLast(word, 1))>>)
    ELSE IF StartsWith(word, "C{") THEN CellFlavour(word, 2, "Cell")
    ELSE IF StartsWith(word, "Cont{") THEN CellFlavour(word, 5, "Cell")
    ELSE IF StartsWith(word, "CS{") THEN CellFlavour(word, 3, "Slice")
    ELSE IF StartsWith(word, "BC{") THEN CellFlavour(word, 3, "Builder")
    ELSE LET n == BigIntOf(word)
         IN  IF n[1] THEN IntV(n[2]) ELSE Unrecognized(word)

\* How a call of parseStack ends: kind is "value" (value is the returned
\* array), "undefined" (stackStack[0] of an empty stackStack is returned),
\* "Error" (the thrown 'Tuple ended without start') or "TypeError" (push on
\* the undefined stackStack[-1]); "pending" before the call.
Outcome(kind, value) == [kind |-> kind, value |-> value]

Pending == Outcome("pending", <<>>)

\* line.replace(/\[/g, ' [ ').replace(/\]/g, ' ] ').split(/\s+/)
Words(ln) == Split("ws", ReplaceChar(ReplaceChar(ln, "[", " [ "), "]", " ] "))

Labels == {"stack:", ""}

\* stackStack with x pushed on its last array
PushOnLast(stackStack, x) ==
    [stackStack EXCEPT ![Len(stackStack)] = Append(@, x)]

\* a mutation of CloseNested: the elements of the closed tuple are spread
\* into the enclosing array (push(...tuple)) instead of nested as one element
CloseNestedSpread(rest, tuple) ==
    [rest EXCEPT ![Len(rest)] = @ \o tuple]

\* stackStack[stackStack.length - 1].push(tuple), after the pop
CloseNested(rest, tuple) == PushOnLast(rest, TupleV(tuple))

RECURSIVE ParseLoop(_, _, _)

\* a mutation of ParseLoop: a ']' met while stackStack is empty is skipped
\* (the test of tuple == undefined left out) instead of thrown on
ParseLoopUnchecked(words, i, stackStack) ==
    IF i > Len(words)
    THEN IF stackStack = <<>> THEN Outcome("undefined", <<>>)
         ELSE Outcome("value", stackStack[1])
    ELSE LET word == Trim(words[i])
         IN  IF word \in Labels THEN ParseLoop(words, i + 1, stackStack)
             ELSE IF word = "["
                  THEN ParseLoop(words, i + 1, Append(stackStack, <<>>))
             ELSE IF word = "]"
                  THEN IF stackStack = <<>> THEN ParseLoop(words, i + 1, stackStack)
                       ELSE LET tuple == stackStack[Len(stackStack)]
                                rest  == SubSeq(stackStack, 1, Len(stackStack) - 1)
                            IN  IF Len(rest) > 0
                                THEN ParseLoop(words, i + 1, CloseNested(rest, tuple))
                                ELSE Outcome("value", tuple)
             ELSE IF stackStack = <<>> THEN Outcome("TypeError", <<>>)
                  ELSE ParseLoop(words, i + 1,
                                 PushOnLast(stackStack, parseStackElement(word)))

\* the for loop of parseStack from index i (1-based) on
ParseLoop(words, i, stackStack) ==
    IF i > Len(words)
    THEN IF stackStack = <<>> THEN Outcome("undefined", <<>>)
         ELSE Outcome("value", stackStack[1])
    ELSE LET word == Trim(words[i])
         IN  IF word \in Labels THEN ParseLoop(words, i + 1, stackStack)
             ELSE IF word = "["
                  THEN ParseLoop(words, i + 1, Append(stackStack, <<>>))
             ELSE IF word = "]"
                  THEN IF stackStack = <<>> THEN Outcome("Error", <<>>)
                       ELSE LET tuple == stackStack[Len(stackStack)]
                                rest  == SubSeq(stackStack, 1, Len(stackStack) - 1)
                            IN  IF Len(rest) > 0
                                THEN ParseLoop(words, i + 1, CloseNested(rest, tuple))
                                ELSE Outcome("value", tuple)
             ELSE IF stackStack = <<>> THEN Outcome("TypeError", <<>>)
                  ELSE ParseLoop(words, i + 1,
                                 PushOnLast(stackStack, parseStackElement(word)))

parseStack(ln) == ParseLoop(Words(ln), 1, <<>>)

\* The lines that are decoded: every concatenation of at most MaxPieces
\* pieces, and the lines the specification names.
MaxPieces == 4

Pieces == {"[", "]", " ", "1", "()", "C{zz}", "stack:"}

NamedLines ==
    {"[ 1 2 [ 3 ] ]", "[ 1 2", "()", "(5)", "stack: 1 2", "C{zz}",
     "stack: [ 1 C{zz} (5) CS{b5ad} ]", "[ C{b5a1} BC{b5a1} Cont{b5a1} CS{b5a1} ]",
     "[ -7 0x1f x ] 9 ]", "[ [ 1 ] [ ] ] [ 2 ]"}

StackLines == {Concat(ps) : ps \in SeqsUpTo(Pieces, MaxPieces)} \cup NamedLines

\* no call of parseStack is modelled
StackIdle == line = "" /\ decoded = Pending

\* no call of parseOpcodeStackDiff on its own is modelled
DiffIdle == signature = "" /\ stackDiff = Pending

\* the state of App after its construction (App.tsx:112-123)
SelectionIdle ==
    /\ selectedOpcode = <<>>
    /\ matchingOpcodes = <<>>
    /\ selectedOpcodeStackDiff = Outcome("null", <<>>)
    /\ hexCode = ""
    /\ clicked = FALSE
    /\ crashed = ""

\* window.location.search as getQueryParam reads it: the values of the
\* parameters testnet and tx, <<>> for one that is absent
SearchParams(testnetParam, tx) == [testnet |-> testnetParam, tx |-> tx]

NoParams == SearchParams(<<>>, <<>>)

BrowserIdle ==
    /\ emulationResult = <<>>
    /\ selectedStep = 0
    /\ views = <<>>
    /\ linkState = ""
    /\ testnetState = FALSE
    /\ location = NoParams

AppIdle ==
    /\ opcodes = <<>>
    /\ catalogDoc = <<>>
    /\ fetches = 0
    /\ SelectionIdle
    /\ BrowserIdle

\* the locals of linkToTx (part_000:123-124, 195, 206) and the await the
\* call is suspended at; hashStr is the hash parameter of its lookups
Frame(pc, txLink, testnet, triedFormats, lt, hash, hashStr) ==
    [pc |-> pc, txLink |-> txLink, testnet |-> testnet, triedFormats |-> triedFormats,
     lt |-> lt, hash |-> hash, hashStr |-> hashStr]

NoFrame == Frame("idle", "", FALSE, <<>>, 0, <<>>, "")

\* no call of linkToTx is followed step by step
NoResolverCall ==
    /\ reference = ""
    /\ forcedTestnet = <<>>
    /\ frame = NoFrame
    /\ trace = <<>>
    /\ inFlight = {}
    /\ results = <<>>

\* no call of linkToTx is modelled
ResolverIdle ==
    /\ NoResolverCall
    /\ index = [network \in BOOLEAN |-> "empty"]

\* no call of mcSeqnoByShard is modelled
ShardIdle ==
    /\ shard = [workchain |-> 0, seqno |-> 0, shard |-> "", rootHash |-> ""]
    /\ response = [failed |-> FALSE, blocks |-> <<>>]
    /\ seqnoResult = Pending

LookupIdle == ResolverIdle /\ ShardIdle

InitStack ==
    /\ line \in StackLines
    /\ decoded = Pending
    /\ DiffIdle
    /\ AppIdle
    /\ LookupIdle

\* a call parseStack(line)
DecodeLine ==
    /\ decoded = Pending
    /\ decoded' = parseStack(line)
    /\ UNCHANGED <<line, diffVars, appVars>>
    /\ UNCHANGED lookupVars

NextStack == DecodeLine

SpecStack == InitStack /\ [][NextStack]_vars

(* What the claims about the decoder speak of.                             *)

\* the tokens of a line that are not labels
Tokens(ln) == SelectSeq(Words(ln), LAMBDA w : Trim(w) \notin Labels)

IsBracket(tok) == tok \in {"[", "]"}

RECURSIVE DepthAfter(_, _)
\* the number of '[' minus the number of ']' among the first n tokens
DepthAfter(toks, n) ==
    IF n = 0 THEN 0
    ELSE DepthAfter(toks, n - 1)
         + (IF toks[n] = "[" THEN 1 ELSE IF toks[n] = "]" THEN -1 ELSE 0)

\* the brackets of the tokens balance
Balanced(toks) ==
    /\ \A n \in 1..Len(toks) : DepthAfter(toks, n) >= 0
    /\ DepthAfter(toks, Len(toks)) = 0

\* a balanced line that begins with a group
GroupLine(ln) ==
    LET toks == Tokens(ln)
    IN  Len(toks) > 0 /\ toks[1] = "[" /\ Balanced(toks)

\* a '[' is still open when the tokens run out
OpenAtEnd(ln) ==
    LET toks == Tokens(ln)
    IN  /\ \A n \in 1..Len(toks) : DepthAfter(toks, n) >= 1
        /\ Len(toks) > 0

RECURSIVE GroupElements(_, _, _)
\* The reading of a group by descent: the elements of the group whose '[' is
\* just before token i, and the index after its ']'. Every inner group is one
\* Tuple at the place of its '['.
GroupElements(toks, i, acc) ==
    IF toks[i] = "]" THEN <<acc, i + 1>>
    ELSE IF toks[i] = "["
         THEN LET inner == GroupElements(toks, i + 1, <<>>)
              IN  GroupElements(toks, inner[2], Append(acc, TupleV(inner[1])))
    ELSE GroupElements(toks, i + 1, Append(acc, parseStackElement(toks[i])))

FirstGroup(ln) == GroupElements(Tokens(ln), 2, <<>>)[1]

Example1 == <<IntV(1), IntV(2), TupleV(<<IntV(3)>>)>>

C2_UnclosedRaises ==
    (decoded # Pending /\ OpenAtEnd(line)) => decoded.kind = "Error"

Variants ==
    {"Null", "Integer", "Tuple", "Cell", "Slice", "Address", "Builder", "Unrecognized"}

IsScalarToken(tok) == ~IsBracket(tok)

\* the words that only the integer branch can accept
PlainWord(w) ==
    /\ w # "()"
    /\ ~(StartsWith(w, "(") /\ EndsWith(w, ")"))
    /\ \A p \in {"C{", "Cont{", "CS{", "BC{"} : ~StartsWith(w, p)

\* the values of the scalar tokens, in token order
ScalarValues(toks) ==
    LET sc == SelectSeq(toks, IsScalarToken)
    IN  [k \in 1..Len(sc) |-> parseStackElement(sc[k])]

\* C3: every token maps to exactly one value, a token that is no integer or
\* whose payload does not decode maps to Unrecognized(token), and parseStack
\* appends one value per scalar token, so no scalar token ends the decoding.
C3_TotalAndLocal ==
    decoded # Pending =>
        /\ \A k \in 1..Len(Tokens(line)) :
              LET tok == Tokens(line)[k]
              IN  /\ parseStackElement(tok).t \in Variants
                  /\ (PlainWord(tok) /\ ~BigIntOf(tok)[1])
                        => parseStackElement(tok) = Unrecognized(tok)
        /\ decoded.kind # "TypeError"

\* C4: a line with scalar tokens and no bracket returns the sequence of the
\* decoded scalars.
C4_ImplicitTopLevel ==
    (/\ decoded # Pending
     /\ Len(Tokens(line)) > 0
     /\ \A k \in 1..Len(Tokens(line)) : ~IsBracket(Tokens(line)[k]))
        => decoded = Outcome("value", ScalarValues(Tokens(line)))

\* a ']' is met while no frame is open: it is the first token of the line
\* (a scalar before it is pushed on no frame, a '[' before it opens one)
ClosesUnopened(ln) ==
    LET toks == Tokens(ln)
    IN  Len(toks) > 0 /\ toks[1] = "]"

\* the line begins with a group that is closed
FirstGroupCloses(ln) ==
    LET toks == Tokens(ln)
    IN  /\ Len(toks) > 0
        /\ toks[1] = "["
        /\ \E n \in 1..Len(toks) : DepthAfter(toks, n) = 0

\* tokens follow the ']' that closes the first group
TokensAfterFirstGroup(ln) ==
    LET toks == Tokens(ln)
    IN  /\ FirstGroupCloses(ln)
        /\ \E n \in 1..(Len(toks) - 1) : DepthAfter(toks, n) = 0

\* C24: parseStack throws the error of the structure whenever a ']' is met
\* while no frame is open; once the outermost ']' has closed the last open
\* frame it returns that sequence, whatever tokens follow on the line.
C24_CloseWithoutOpen ==
    decoded # Pending =>
        /\ ClosesUnopened(line) => decoded = Outcome("Error", <<>>)
        /\ FirstGroupCloses(line) => decoded = Outcome("value", FirstGroup(line))

\* a ']' before any '[', with a group after it that is never decoded
C24_Witness ==
    /\ line = "][1]"
    /\ decoded = Outcome("Error", <<>>)

\* a closed first group followed by tokens and a further ']'
C24_LaterTokensIgnored ==
    /\ line = "[ -7 0x1f x ] 9 ]"
    /\ TokensAfterFirstGroup(line)
    /\ decoded = Outcome("value", <<IntV(-7), IntV(31), Unrecognized("x")>>)


-----------------------------------------------------------------------------
(* The stack-effect notation parser, src/src/App.tsx.                      *)

\* the regular expression class \w
WordChars == "abcdefghijklmnopqrstuvwxyzABCDEFGHIJKLMNOPQRSTUVWXYZ0123456789_"

WordCharSet == CharsOf(WordChars)

IsWordChar(c) == c \in WordCharSet

RECURSIVE WordRun(_, _)
\* the number of \w characters of s from position i on
WordRun(s, i) ==
    IF i <= Len(s) /\ IsWordChar(Char(s, i)) THEN 1 + WordRun(s, i + 1) ELSE 0

\* The length of the match of /\w+\s+op\s+\w+/ at position i of s, 0 when
\* there is none. \w, \s and the first letter of op exclude one another, so
\* each greedy run is the only length that can match.
MatchCompound(s, i, op) ==
    LET w1 == WordRun(s, i)
        s1 == LeadingWs(s, i + w1)
        j  == i + w1 + s1
        s2 == LeadingWs(s, j + Len(op))
        w2 == WordRun(s, j + Len(op) + s2)
    IN  IF /\ w1 > 0 /\ s1 > 0
           /\ j + Len(op) - 1 <= Len(s) /\ SubSeq(s, j, j + Len(op) - 1) = op
           /\ s2 > 0 /\ w2 > 0
        THEN w1 + s1 + Len(op) + s2 + w2
        ELSE 0

RECURSIVE FoldFrom(_, _, _)
FoldFrom(s, i, op) ==
    IF i > Len(s) THEN ""
    ELSE LET m == MatchCompound(s, i, op)
         IN  IF m > 0 THEN "X" \o FoldFrom(s, i + m, op)
             ELSE Char(s, i) \o FoldFrom(s, i + 1, op)

\* stackPart.replace(/\w+\s+mod\s+\w+/g, 'X').replace(/\w+\s+xor\s+\w+/g, 'X')
Normalized(stackPart) == FoldFrom(FoldFrom(stackPart, 1, "mod"), 1, "xor")

countStackItems(stackPart) ==
    IF Trim(stackPart) = "" THEN 0
    ELSE Len(Split(" ", Trim(Normalized(stackPart))))

Null == Outcome("null", <<>>)

Pair(consumed, produced) == Outcome("pair", <<consumed, produced>>)

\* a mutation of parseOpcodeStackDiff: the '...' test is missing
parseOpcodeStackDiffNoEllipsis(text) ==
    IF Len(text) = 0 THEN Null
    ELSE IF text = "-" THEN Null
    ELSE IF Includes(text, "or") /\ ~Includes(text, "xor") THEN Null
    ELSE IF StartsWith(text, "- ")
         THEN Pair(0, countStackItems(SubSeq(text, 3, Len(text))))
    ELSE IF EndsWith(text, " -")
         THEN Pair(countStackItems(SubSeq(text, 1, Len(text) - 2)), 0)
    ELSE LET parts == Split(" - ", text)
         IN  IF Len(parts) # 2 THEN Null
             ELSE Pair(countStackItems(parts[1]), countStackItems(parts[2]))

\* nothing in the try block throws, so the catch is never entered
parseOpcodeStackDiff(text) ==
    IF Len(text) = 0 THEN Null
    ELSE IF text = "-" THEN Null
    ELSE IF Includes(text, "or") /\ ~Includes(text, "xor") THEN Null
    ELSE IF Includes(text, "...") THEN Null
    ELSE IF StartsWith(text, "- ")
         THEN Pair(0, countStackItems(SubSeq(text, 3, Len(text))))
    ELSE IF EndsWith(text, " -")
         THEN Pair(countStackItems(SubSeq(text, 1, Len(text) - 2)), 0)
    ELSE LET parts == Split(" - ", text)
         IN  IF Len(parts) # 2 THEN Null
             ELSE Pair(countStackItems(parts[1]), countStackItems(parts[2]))

\* The signatures that are parsed: every concatenation of at most
\* MaxSigPieces pieces, and the signatures the specification names.
MaxSigPieces == 4

SigPieces == {"a", " ", "-", "or", "x", "...", "mod"}

NamedSignatures ==
    {"- c", "c c' - c''", "x - x x", "x -", "x y - x or y", "- a xor b",
     "- a mod b c", "a b mod c -", "- a  b", "- a\tb", "x y - ...", "a - b - c"}

Signatures ==
    {Concat(ps) : ps \in SeqsUpTo(SigPieces, MaxSigPieces)} \cup NamedSignatures

InitDiff ==
    /\ signature \in Signatures
    /\ stackDiff = Pending
    /\ StackIdle
    /\ AppIdle
    /\ LookupIdle

\* a call parseOpcodeStackDiff(signature)
ParseDiff ==
    /\ stackDiff = Pending
    /\ stackDiff' = parseOpcodeStackDiff(signature)
    /\ UNCHANGED <<signature, stackVars, appVars>>
    /\ UNCHANGED lookupVars

NextDiff == ParseDiff

SpecDiff == InitDiff /\ [][NextDiff]_vars

(* What the claims about the notation parser speak of.                     *)

\* s holds p at some position
Holds(s, p) == \E i \in 1..Len(s) : i + Len(p) - 1 <= Len(s) /\ SubSeq(s, i, i + Len(p) - 1) = p

\* the class of signatures whose arity is not fixed
IndeterminateClass(sig) ==
    \/ sig = ""
    \/ sig = "-"
    \/ Holds(sig, "...")
    \/ Holds(sig, "or") /\ ~Holds(sig, "xor")

\* the number of white space separated tokens of s
WsTokenCount(s) == Len(SelectSeq(Split("ws", s), LAMBDA w : w # ""))

\* C5: every signature of the indeterminate class parses to the distinct
\* Indeterminate value, never to a pair such as (0,0).
C5_Indeterminate ==
    (stackDiff # Pending /\ IndeterminateClass(signature)) => stackDiff = Null

C5_Witness ==
    /\ stackDiff = Null
    /\ Holds(signature, "...")
    /\ StartsWith(signature, "- ")

\* C6: a signature "- <after>" outside the indeterminate class parses to
\* consumed 0 and produced the white space token count of <after> after the
\* folding of the compounds; "c c' - c''" parses to (2,1).
C6_DashPrefix ==
    stackDiff # Pending =>
        /\ (StartsWith(signature, "- ") /\ ~IndeterminateClass(signature))
              => stackDiff = Pair(0, WsTokenCount(
                                 Normalized(SubSeq(signature, 3, Len(signature)))))
        /\ signature = "c c' - c''" => stackDiff = Pair(2, 1)
        /\ signature = "- c" => stackDiff = Pair(0, 1)

\* the two sides that parseOpcodeStackDiff hands to countStackItems for a
\* signature that parses to a pair; the side of a leading or trailing '-'
\* is empty
Sides(sig) ==
    IF StartsWith(sig, "- ") THEN <<"", SubSeq(sig, 3, Len(sig))>>
    ELSE IF EndsWith(sig, " -") THEN <<SubSeq(sig, 1, Len(sig) - 2), "">>
    ELSE Split(" - ", sig)

\* C23: countStackItems of a side is the number of its white space
\* separated tokens after the folding of each "<x> mod <y>" and
\* "<x> xor <y>" into one token: 0 for a side of white space only, and a
\* run of white space between two tokens adds nothing to the count.
C23_CountsFoldedTokens ==
    (stackDiff # Pending /\ stackDiff # Null) =>
        stackDiff = Pair(WsTokenCount(Normalized(Sides(signature)[1])),
                         WsTokenCount(Normalized(Sides(signature)[2])))


-----------------------------------------------------------------------------
(* The instruction classifier, src/src/App.tsx.                            *)

LowerCase == "abcdefghijklmnopqrstuvwxyz"

UpperCase == "ABCDEFGHIJKLMNOPQRSTUVWXYZ"

UpperOf == [c \in CharsOf(LowerCase) |-> Char(UpperCase, PositionIn(LowerCase)[c])]

UpperChar(c) == IF c \in DOMAIN UpperOf THEN UpperOf[c] ELSE c

RECURSIVE ToUpper(_)
\* String.prototype.toUpperCase
ToUpper(s) ==
    IF s = "" THEN "" ELSE UpperChar(Char(s, 1)) \o ToUpper(SubSeq(s, 2, Len(s)))

RECURSIVE DigitRun(_, _)
DigitRun(s, i) ==
    IF i <= Len(s) /\ IsDigit(Char(s, i)) THEN 1 + DigitRun(s, i + 1) ELSE 0

NaN == [ok |-> FALSE, n |-> 0]

Number(n) == [ok |-> TRUE, n |-> n]

\* parseInt(str): leading white space, a sign, then the longest run of
\* decimal digits; NaN when there is no digit. (A 0x prefix would select
\* base 16; no slot operand has one.)
ParseInt(str) ==
    LET a    == LeadingWs(str, 1)
        neg  == Char(str, a + 1) = "-"
        b    == IF Char(str, a + 1) \in {"-", "+"} THEN a + 1 ELSE a
        d    == DigitRun(str, b + 1)
        v    == RadixVal(SubSeq(str, b + 1, b + d), 10, Digits)
    IN  IF d = 0 THEN NaN ELSE Number(IF neg THEN 0 - v ELSE v)

\* an Opcode of the catalog (App.tsx:88-98), the fields the classifier reads
Opcode(name, alias_of, doc_fift, doc_stack, doc_description) ==
    [name |-> name, alias_of |-> alias_of, doc_fift |-> doc_fift,
     doc_stack |-> doc_stack, doc_description |-> doc_description]

\* null, and a found record
None == <<>>

Some(op) == <<op>>

\* the indices of the array
Indices(ops) == 1..Len(ops)

\* Array.prototype.find: the first element, in array order, among those at
\* the indices hits (the ones that satisfy the callback)
Find(ops, hits) ==
    IF hits = {} THEN None
    ELSE Some(ops[CHOOSE k \in hits : \A m \in hits : k <= m])

FindByName(ops, name) == Find(ops, {k \in Indices(ops) : ops[k].name = name})

\* trim, strip a leading 'implicit ', split on /\s+|,/ (App.tsx:238-244)
CommandParts(opcodeStr) ==
    LET t == Trim(opcodeStr)
        n == IF StartsWith(t, "implicit ") THEN Trim(SubSeq(t, 10, Len(t))) ELSE t
    IN  Split("wscomma", n)

\* what a tier of findOpcodeInfo does: it returns a value (a record or null)
\* or lets the next tier run
Returns(match) == [returned |-> TRUE, match |-> match]

Continues == [returned |-> FALSE, match |-> None]

\* a mutation of XchgRule: s1 is paired with j > 2 instead of j >= 2
XchgRuleStrict(ops, i, j) ==
    IF i = 0 THEN Returns(FindByName(ops, "XCHG_0I"))
    ELSE IF i = 1
         THEN IF j > 2 THEN Returns(FindByName(ops, "XCHG_1I")) ELSE Continues
    ELSE IF i >= 1 /\ j > i /\ j <= 15
         THEN Returns(FindByName(ops, "XCHG_IJ")) ELSE Continues

\* the choice among the three exchange records (App.tsx:259-283)
XchgRule(ops, i, j) ==
    IF i = 0 THEN Returns(FindByName(ops, "XCHG_0I"))
    ELSE IF i = 1
         THEN IF j >= 2 THEN Returns(FindByName(ops, "XCHG_1I")) ELSE Continues
    ELSE IF i >= 1 /\ j > i /\ j <= 15
         THEN Returns(FindByName(ops, "XCHG_IJ")) ELSE Continues

\* the XCHG tier (App.tsx:252-286)
XchgTier(ops, parts) ==
    LET params == SelectSeq(Tail(parts), LAMBDA p : StartsWith(p, "s"))
    IN  IF Len(params) < 2 THEN Continues
        ELSE LET i == ParseInt(SubSeq(params[1], 2, Len(params[1])))
                 j == ParseInt(SubSeq(params[2], 2, Len(params[2])))
             IN  IF i.ok /\ j.ok THEN XchgRule(ops, i.n, j.n) ELSE Continues

RECURSIVE Join(_, _)
\* Array.prototype.join
Join(parts, sep) ==
    IF parts = <<>> THEN ""
    ELSE IF Len(parts) = 1 THEN parts[1]
    ELSE parts[1] \o sep \o Join(Tail(parts), sep)

RECURSIVE ReplaceBracketed(_, _)
\* s.replace(/\[.*?\]/g, '*') from position i on: a '[' up to the first ']'
\* after it becomes '*' (the text has no line break: it was split on /\s+/)
ReplaceBracketed(s, i) ==
    IF i > Len(s) THEN ""
    ELSE LET closes == {j \in (i + 1)..Len(s) : Char(s, j) = "]"}
         IN  IF Char(s, i) = "[" /\ closes # {}
             THEN "*" \o ReplaceBracketed(s, 1 + CHOOSE j \in closes : \A m \in closes : j <= m)
             ELSE Char(s, i) \o ReplaceBracketed(s, i + 1)

\* the template tier (App.tsx:288-302)
TemplateMatches(op, commandName) ==
    /\ Includes(op.doc_fift, "[")
    /\ Includes(op.doc_fift, "]")
    /\ LET fiftParts == Split("ws", op.doc_fift)
       IN  /\ ToUpper(fiftParts[1]) = commandName
           /\ Includes(ReplaceBracketed(Join(Tail(fiftParts), " "), 1), "*")

TemplateTier(ops, commandName) ==
    Find(ops, {k \in Indices(ops) : TemplateMatches(ops[k], commandName)})

\* the description tier (App.tsx:304-310)
DescriptionTier(ops, commandName) ==
    Find(ops, {k \in Indices(ops) : Includes(ToUpper(ops[k].doc_description), commandName)})

NameOrAliasHolds(op, commandName) ==
    \/ Includes(ToUpper(op.name), commandName)
    \/ op.alias_of # "" /\ Includes(ToUpper(op.alias_of), commandName)

\* the name/alias tier (App.tsx:312-319)
PartialTier(ops, commandName) ==
    Find(ops, {k \in Indices(ops) : NameOrAliasHolds(ops[k], commandName)})

\* the exact tier (App.tsx:247-250)
ExactTier(ops, commandName) ==
    Find(ops, {k \in Indices(ops) : ToUpper(ops[k].name) = commandName})

findOpcodeInfo(ops, opcodeStr) ==
    IF opcodeStr = "" \/ Len(ops) = 0 THEN None
    ELSE LET parts       == CommandParts(opcodeStr)
             commandName == ToUpper(parts[1])
             exactMatch  == ExactTier(ops, commandName)
             xchg        == IF commandName = "XCHG" THEN XchgTier(ops, parts)
                            ELSE Continues
             template    == TemplateTier(ops, commandName)
             description == DescriptionTier(ops, commandName)
         IN  IF exactMatch # None THEN exactMatch
             ELSE IF xchg.returned THEN xchg.match
             ELSE IF template # None THEN template
             ELSE IF description # None THEN description
             ELSE PartialTier(ops, commandName)

\* .slice(0, 5) of findRelatedOpcodes (App.tsx:358)
RelatedCap == 5

findRelatedOpcodes(opcodeStr, allOpcodes) ==
    LET parts       == Split("wscomma", ToUpper(Trim(opcodeStr)))
        commandName == parts[1]
        hits == SelectSeq(allOpcodes,
                          LAMBDA op : \/ NameOrAliasHolds(op, commandName)
                                      \/ Includes(ToUpper(op.doc_fift), commandName))
    IN  SubSeq(hits, 1, IF Len(hits) < RelatedCap THEN Len(hits) ELSE RelatedCap)

\* opcodeInfo?.doc_stack || ''
DocStackOf(opcodeInfo) == IF opcodeInfo = None THEN "" ELSE opcodeInfo[1].doc_stack

\* What a call handleOpcodeClick(code) makes of the selection sel (the
\* record of selectedOpcode, matchingOpcodes, selectedOpcodeStackDiff):
\* reload is the call of loadOpcodesJson, threw a TypeError of the handler.
Selection(sel, matching, diff, reload, threw) ==
    [selectedOpcode |-> sel, matchingOpcodes |-> matching,
     selectedOpcodeStackDiff |-> diff, reload |-> reload, threw |-> threw]

\* a mutation of handleOpcodeClick: no early return on an empty catalog and
\* opcodeInfo.doc_stack read without the ?. guard
handleOpcodeClickUnguarded(ops, code, cur) ==
    LET opcodeInfo == findOpcodeInfo(ops, code)
    IN  Selection(opcodeInfo, findRelatedOpcodes(code, ops),
                  IF opcodeInfo = None THEN cur.selectedOpcodeStackDiff
                  ELSE parseOpcodeStackDiff(opcodeInfo[1].doc_stack),
                  FALSE, opcodeInfo = None)

\* handleOpcodeClick (App.tsx:324-340)
handleOpcodeClick(ops, code, cur) ==
    IF Len(ops) = 0 THEN [cur EXCEPT !.reload = TRUE]
    ELSE LET opcodeInfo == findOpcodeInfo(ops, code)
         IN  Selection(opcodeInfo, findRelatedOpcodes(code, ops),
                       parseOpcodeStackDiff(DocStackOf(opcodeInfo)), FALSE, FALSE)

\* the fetches that may be in flight at once
MaxFetches == 2

\* the state after a call handleOpcodeClick(code); loadOpcodesJson
\* (App.tsx:213-227) issues a fetch when the catalog is empty
SetSelection(code, new) ==
    /\ new.reload => fetches < MaxFetches
    /\ selectedOpcode' = new.selectedOpcode
    /\ matchingOpcodes' = new.matchingOpcodes
    /\ selectedOpcodeStackDiff' = new.selectedOpcodeStackDiff
    /\ fetches' = IF new.reload THEN fetches + 1 ELSE fetches
    /\ crashed' = IF new.threw /\ crashed = "" THEN "handleOpcodeClick" ELSE crashed
    /\ hexCode' = code
    /\ clicked' = TRUE
    /\ UNCHANGED opcodes

Click(code) ==
    SetSelection(code, handleOpcodeClick(opcodes, code,
                     Selection(selectedOpcode, matchingOpcodes,
                               selectedOpcodeStackDiff, FALSE, FALSE)))

(* The catalogs and instruction texts the classifier is run on.            *)

XCHG_0I == Opcode("XCHG_0I", "", "s[i] XCHG0", "", "Interchanges s0 with s[i], 1 <= i <= 15.")

XCHG_1I == Opcode("XCHG_1I", "", "s1 s[i] XCHG", "", "Interchanges s1 with s[i], 2 <= i <= 15.")

XCHG_IJ == Opcode("XCHG_IJ", "", "s[i] s[j] XCHG", "", "Interchanges s[i] with s[j], 1 <= i < j <= 15.")

SWAP == Opcode("SWAP", "XCHG_0I", "SWAP", "x y - y x", "Same as s1 XCHG0.")

XCHG == Opcode("XCHG", "", "XCHG", "x y - y x", "The bare exchange.")

PUSHINT_4 == Opcode("PUSHINT_4", "", "PUSHINT [x]", "- x", "Pushes integer x into the stack.")

RET == Opcode("RET", "", "RET", "", "Returns to the continuation at c0.")

MasterCatalog == <<SWAP, XCHG_0I, XCHG_1I, XCHG_IJ, XCHG, PUSHINT_4, RET>>

RECURSIVE SubSequences(_)
\* the sequences obtained from s by dropping elements
SubSequences(s) ==
    IF s = <<>> THEN {<<>>}
    ELSE LET rest == SubSequences(Tail(s))
         IN  rest \cup {<<Head(s)>> \o r : r \in rest}

Catalogs == SubSequences(MasterCatalog)

Slots == {0, 1, 2, 5, 15, 16}

\* the decimal text of n, 0 <= n <= 99
Decimal(n) ==
    IF n < 10 THEN Char(Digits, n + 1)
    ELSE Char(Digits, (n \div 10) + 1) \o Char(Digits, (n % 10) + 1)

\* the instruction text of the exchange of s<i> and s<j>
XchgText(i, j) == "XCHG s" \o Decimal(i) \o ", s" \o Decimal(j)

OtherTexts ==
    {"swap", "implicit RET", "RET", "PUSHINT 5", "PUSH", "NOP", "x", "XCHG s1",
     "XCHG s0, s3", "XCHG s2, s3", "XCHG s0,s3", "implicit XCHG s1, s2",
     "XCHG sx, s2", " ", ",SWAP"}

InstrTexts == {XchgText(i, j) : i \in Slots, j \in Slots} \cup OtherTexts

InitClassify ==
    /\ opcodes \in Catalogs
    /\ hexCode \in InstrTexts
    /\ clicked = FALSE
    /\ selectedOpcode = None
    /\ matchingOpcodes = <<>>
    /\ selectedOpcodeStackDiff = Null
    /\ crashed = ""
    /\ catalogDoc = opcodes
    /\ fetches = 0
    /\ BrowserIdle
    /\ StackIdle
    /\ DiffIdle
    /\ LookupIdle

\* a call handleOpcodeClick(hexCode) on the loaded catalog
Classify ==
    /\ ~clicked
    /\ Click(hexCode)
    /\ UNCHANGED <<stackVars, diffVars, browserVars>>
    /\ UNCHANGED lookupVars

NextClassify == Classify

SpecClassify == InitClassify /\ [][NextClassify]_vars

\* the catalog holds a record named name
HasRecord(ops, name) == \E k \in 1..Len(ops) : ops[k].name = name

\* the catalogs of the exchange claim: the three exchange records are
\* there and no record is named exactly XCHG
ExchangeCatalog(ops) ==
    /\ HasRecord(ops, "XCHG_0I")
    /\ HasRecord(ops, "XCHG_1I")
    /\ HasRecord(ops, "XCHG_IJ")
    /\ \A k \in 1..Len(ops) : ToUpper(ops[k].name) # "XCHG"

\* the first record named name, none when there is none
FirstNamed(ops, name) ==
    IF \E k \in 1..Len(ops) : ops[k].name = name
    THEN <<ops[CHOOSE k \in 1..Len(ops) :
                   ops[k].name = name /\ \A m \in 1..(k - 1) : ops[m].name # name]>>
    ELSE <<>>

\* the first of the candidates, in their order, that is a record
FirstSuccess(candidates) ==
    IF \E k \in 1..Len(candidates) : candidates[k] # <<>>
    THEN candidates[CHOOSE k \in 1..Len(candidates) :
                        candidates[k] # <<>> /\ \A m \in 1..(k - 1) : candidates[m] = <<>>]
    ELSE <<>>

\* the command key of an instruction text: trimmed, the implicit marker
\* stripped, the first token on white space and commas, in upper case
CommandKey(text) == ToUpper(CommandParts(text)[1])

\* what the tiers after the exchange rule choose for the command key
LaterTiers(ops, key) ==
    FirstSuccess(<<TemplateTier(ops, key), DescriptionTier(ops, key), PartialTier(ops, key)>>)

\* the record the exchange claim names for the operands s<i>, s<j>
ExchangeChoice(ops, i, j) ==
    IF i = 0 THEN FirstNamed(ops, "XCHG_0I")
    ELSE IF i = 1 /\ j >= 2 THEN FirstNamed(ops, "XCHG_1I")
    ELSE IF 1 <= i /\ i < j /\ j <= 15 THEN FirstNamed(ops, "XCHG_IJ")
    ELSE LaterTiers(ops, "XCHG")

\* C7: with the three exchange records in the catalog and no record named
\* exactly XCHG, "XCHG s<i>, s<j>" is classified as XCHG_0I when i = 0, as
\* XCHG_1I when i = 1 and j >= 2, as XCHG_IJ when 1 <= i < j <= 15 and
\* otherwise as the later tiers choose for the key XCHG.
C7_XchgRule ==
    (clicked /\ ExchangeCatalog(opcodes)) =>
        /\ \A i \in Slots, j \in Slots :
              hexCode = XchgText(i, j) => selectedOpcode = ExchangeChoice(opcodes, i, j)
        /\ hexCode = "XCHG s0, s3" => selectedOpcode = Some(XCHG_0I)
        /\ hexCode = "XCHG s1, s5" => selectedOpcode = Some(XCHG_1I)
        /\ hexCode = "XCHG s2, s3" => selectedOpcode = Some(XCHG_IJ)
        /\ hexCode = "XCHG s5, s2" => selectedOpcode = LaterTiers(opcodes, "XCHG")

C7_Witness ==
    /\ clicked
    /\ ExchangeCatalog(opcodes)
    /\ hexCode = "XCHG s1, s2"
    /\ selectedOpcode = Some(XCHG_1I)
    /\ LaterTiers(opcodes, "XCHG") = Some(SWAP)

\* the record of the exchange rule, when the rule applies to the text and
\* its record is in the catalog
ExchangeSuccess(ops, text) ==
    IF CommandKey(text) = "XCHG" THEN XchgTier(ops, CommandParts(text)).match ELSE <<>>

\* C8: the selected record is the one of the first tier that finds a record,
\* in the order exact name, exchange rule, template, description,
\* name/alias; it is none only when no tier finds one.
C8_FirstSuccessWins ==
    (clicked /\ Len(opcodes) > 0) =>
        selectedOpcode =
            FirstSuccess(<<ExactTier(opcodes, CommandKey(hexCode)),
                           ExchangeSuccess(opcodes, hexCode),
                           TemplateTier(opcodes, CommandKey(hexCode)),
                           DescriptionTier(opcodes, CommandKey(hexCode)),
                           PartialTier(opcodes, CommandKey(hexCode))>>)

\* name, alias_of or doc_fift of the record holds the key, whatever the case
HoldsKey(op, key) ==
    \/ Holds(ToUpper(op.name), key)
    \/ Holds(ToUpper(op.alias_of), key)
    \/ Holds(ToUpper(op.doc_fift), key)

\* C9: the related records are the first min(5, n) of the n records of the
\* catalog whose name, alias_of or doc_fift holds the command key, in
\* catalog order.
C9_RelatedByKey ==
    (clicked /\ Len(opcodes) > 0) =>
        LET all == SelectSeq(opcodes, LAMBDA op : HoldsKey(op, CommandKey(hexCode)))
        IN  matchingOpcodes = SubSeq(all, 1, IF Len(all) < 5 THEN Len(all) ELSE 5)

\* the instruction text carries the marker of an emulator-injected step
Implicit(text) == StartsWith(Trim(text), "implicit ")

\* the instruction text without its marker
Unmarked(text) == LET t == Trim(text) IN Trim(SubSeq(t, 10, Len(t)))

\* C22: for an instruction text with a leading "implicit " marker the
\* selected record and the related records are those of the text without
\* the marker, for every catalog: both are computed from the first token
\* after the marker, in upper case.
C22_ImplicitSameAsPlain ==
    (clicked /\ Len(opcodes) > 0 /\ Implicit(hexCode)) =>
        /\ selectedOpcode = findOpcodeInfo(opcodes, Unmarked(hexCode))
        /\ matchingOpcodes = findRelatedOpcodes(Unmarked(hexCode), opcodes)

\* C30: with a catalog that is not empty, no record is selected for an
\* instruction text whose command key is empty (a text of white space only
\* or one that begins with a comma).
C30_EmptyKeyNoMatch ==
    (clicked /\ Len(opcodes) > 0 /\ CommandKey(hexCode) = "") =>
        selectedOpcode = None


-----------------------------------------------------------------------------
(* Buffer encodings, src/unnamed/part_000. A Buffer is the sequence of its *)
(* bytes.                                                                  *)

HexDigits == "0123456789abcdef"

\* the value of a hexadecimal digit of either case
HexValue ==
    [c \in CharsOf("0123456789abcdefABCDEF") |->
        PositionIn("0123456789ABCDEF")[UpperChar(c)] - 1]

IsHexDigit(c) == c \in DOMAIN HexValue

RECURSIVE HexDecodeFrom(_, _)
\* Buffer.from(s, 'hex') from position i on: one byte for each pair of
\* hexadecimal digits, up to the first pair that is not one
HexDecodeFrom(s, i) ==
    IF IsHexDigit(Char(s, i)) /\ IsHexDigit(Char(s, i + 1))
    THEN <<16 * HexValue[Char(s, i)] + HexValue[Char(s, i + 1)]>> \o HexDecodeFrom(s, i + 2)
    ELSE <<>>

BufferFromHex(s) == HexDecodeFrom(s, 1)

RECURSIVE HexEncode(_)
\* buffer.toString('hex')
HexEncode(bytes) ==
    IF bytes = <<>> THEN ""
    ELSE Char(HexDigits, (Head(bytes) \div 16) + 1) \o Char(HexDigits, (Head(bytes) % 16) + 1)
         \o HexEncode(Tail(bytes))

\* a string of 64 hexadecimal digits
IsHex64(s) == Len(s) = 64 /\ \A k \in 1..64 : IsHexDigit(Char(s, k))

Base64Alphabet == "ABCDEFGHIJKLMNOPQRSTUVWXYZabcdefghijklmnopqrstuvwxyz0123456789+/"

\* the 6-bit value of a base64 character; the URL-safe '-' and '_' are read
\* as '+' and '/'
Base64Value ==
    [c \in CharsOf(Base64Alphabet) \cup {"-", "_"} |->
        IF c = "-" THEN 62 ELSE IF c = "_" THEN 63
        ELSE PositionIn(Base64Alphabet)[c] - 1]

RECURSIVE Sextets(_, _)
\* the 6-bit values of s from position i on: the decoding ends at the first
\* '=' and skips what is no base64 character
Sextets(s, i) ==
    IF i > Len(s) \/ Char(s, i) = "=" THEN <<>>
    ELSE IF Char(s, i) \in DOMAIN Base64Value
         THEN <<Base64Value[Char(s, i)]>> \o Sextets(s, i + 1)
         ELSE Sextets(s, i + 1)

RECURSIVE BytesOfSextets(_, _)
\* three bytes of each four 6-bit values, from position i on
BytesOfSextets(q, i) ==
    IF Len(q) - i + 1 < 2 THEN <<>>
    ELSE IF Len(q) - i + 1 = 2 THEN <<q[i] * 4 + (q[i + 1] \div 16)>>
    ELSE IF Len(q) - i + 1 = 3
         THEN <<q[i] * 4 + (q[i + 1] \div 16), (q[i + 1] % 16) * 16 + (q[i + 2] \div 4)>>
    ELSE <<q[i] * 4 + (q[i + 1] \div 16), (q[i + 1] % 16) * 16 + (q[i + 2] \div 4),
           (q[i + 2] % 4) * 64 + q[i + 3]>> \o BytesOfSextets(q, i + 4)

\* Buffer.from(s, 'base64')
BufferFromBase64(s) == BytesOfSextets(Sextets(s, 1), 1)

Base64Char(v) == Char(Base64Alphabet, v + 1)

RECURSIVE Base64EncodeFrom(_, _)
\* buffer.toString('base64') from byte i on, with the '=' padding
Base64EncodeFrom(b, i) ==
    IF i > Len(b) THEN ""
    ELSE IF i = Len(b)
         THEN Base64Char(b[i] \div 4) \o Base64Char((b[i] % 4) * 16) \o "=="
    ELSE IF i + 1 = Len(b)
         THEN Base64Char(b[i] \div 4) \o Base64Char((b[i] % 4) * 16 + (b[i + 1] \div 16))
              \o Base64Char((b[i + 1] % 16) * 4) \o "="
    ELSE Base64Char(b[i] \div 4) \o Base64Char((b[i] % 4) * 16 + (b[i + 1] \div 16))
         \o Base64Char((b[i + 1] % 16) * 4 + (b[i + 2] \div 64)) \o Base64Char(b[i + 2] % 64)
         \o Base64EncodeFrom(b, i + 3)

Base64Encode(bytes) == Base64EncodeFrom(bytes, 1)

-----------------------------------------------------------------------------
(* The locator resolver linkToTx, src/unnamed/part_000.                    *)

\* An Address of @ton/core, by its two texts. Address.parse and
\* Address.parseRaw are modelled on the addresses of AddressBook; every other
\* text is one they throw on.
AddressOf(friendly, raw) == [friendly |-> friendly, raw |-> raw]

NoAddress == AddressOf("", "")

AddrA ==
    AddressOf("EQDa4VOnTYlLvDJ0gZjNYm5PXfSmmtL6Vs6A_CZEtXCNICq_",
              "0:dae153a74d894bbc32748198cd626e4f5df4a69ad2fa56ce80fc2644b5708d20")

AddrB ==
    AddressOf("EQAzMzMzMzMzMzMzMzMzMzMzMzMzMzMzMzMzMzMzMzMzM7SN",
              "0:3333333333333333333333333333333333333333333333333333333333333333")

AddressBook == {AddrA, AddrB}

\* Address.parseRaw(source): <<address>>, <<>> when it throws
AddressParseRaw(source) ==
    IF \E a \in AddressBook : ToUpper(a.raw) = ToUpper(source)
    THEN <<CHOOSE a \in AddressBook : ToUpper(a.raw) = ToUpper(source)>>
    ELSE <<>>

\* Address.parse(source): the friendly or the raw text
AddressParse(source) ==
    IF \E a \in AddressBook : a.friendly = source
    THEN <<CHOOSE a \in AddressBook : a.friendly = source>>
    ELSE AddressParseRaw(source)

\* address.toString()
AddressToString(addr) == addr.friendly

RECURSIVE BigIntToString(_)
\* the decimal text of a bigint n >= 0
BigIntToString(n) ==
    IF n < 10 THEN Char(Digits, n + 1)
    ELSE BigIntToString(n \div 10) \o Char(Digits, (n % 10) + 1)

\* BaseTxInfo (part_000:5, 311)
BaseTxInfo(lt, hash, addr) == [lt |-> lt, hash |-> hash, addr |-> addr]

HashA == BufferFromHex("3e5f49798de239da5d8f80b4dc300204d37613e4203a3f7b877c04a88c81856b")

\* the transaction the mainnet index may hold and the one of the same hash
\* the testnet index may hold
MainnetTx == BaseTxInfo(47670702, HashA, AddrA)

TestnetTx == BaseTxInfo(47670703, HashA, AddrB)

TxOf(testnet) == IF testnet THEN TestnetTx ELSE MainnetTx

\* a TransactionIndexed of the toncenter answer: the fields linkToTx reads
TransactionIndexed(tx) ==
    [account |-> ToUpper(tx.addr.raw), lt |-> BigIntToString(tx.lt),
     hash |-> Base64Encode(tx.hash)]

\* the hash parameter of a lookup names the transaction: toncenter takes the
\* hash in hex of either case or in base64
Names(param, tx) ==
    \/ ToUpper(param) = ToUpper(HexEncode(tx.hash))
    \/ param = Base64Encode(tx.hash)

\* what fetchTransactions({hash: param, limit: 1}, testnet) comes back with
\* (part_000:13-36): "down" when axios throws, else the transactions list
\* of the answer
Answer(idx, testnet, param) ==
    IF idx[testnet] = "down" THEN [thrown |-> TRUE, transactions |-> <<>>]
    ELSE IF idx[testnet] = "has" /\ Names(param, TxOf(testnet))
         THEN [thrown |-> FALSE, transactions |-> <<TransactionIndexed(TxOf(testnet))>>]
    ELSE [thrown |-> FALSE, transactions |-> <<>>]

\* the outcome of a linkToTx call: the value it resolves to ...
Resolved(lt, hash, addr, testnet) ==
    [kind |-> "locator", lt |-> lt, hash |-> hash, addr |-> addr, testnet |-> testnet,
     message |-> ""]

\* ... or the error it rejects with
Rejected(kind, message) ==
    [kind |-> kind, lt |-> 0, hash |-> <<>>, addr |-> NoAddress, testnet |-> FALSE,
     message |-> message]

\* the message of the Error fetchTransactions throws (part_000:31)
FetchError == "Get transactions on Toncenter V3: Network Error"

\* the message of the TypeError of reading a field of transactions[0] of an
\* empty list
UndefinedRead(field) ==
    "Cannot read properties of undefined (reading '" \o field \o "')"

\* part_000:253
NotOfLength64 == "Seems like hash, but not of length 64. Probably missing letters"

\* the Error of part_000:300-307
CouldntRecognize(triedFormats, maybeMsg) ==
    Rejected("ResolutionError",
             "Coudn't recognize such link, tried all formats: "
                 \o Join(triedFormats, ", ") \o ". " \o maybeMsg)

\* maybeMsg for an error that is not 'nope' (part_000:301-303)
StrangeError(message) == "Got strange error: " \o message

\* forcedTestnet || false
Forced(hint) == hint = <<TRUE>>

\* the positions of the character c in s
PositionsOf(c, s) == {i \in 1..Len(s) : Char(s, i) = c}

\* the k-th of the positions ps in increasing order; 0 before the first and
\* one past the end of s after the last
Boundary(ps, k, s) ==
    IF k = 0 THEN 0
    ELSE IF k > Cardinality(ps) THEN Len(s) + 1
    ELSE CHOOSE p \in ps : Cardinality({q \in ps : q < p}) = k - 1

PiecesBetween(ps, s) ==
    [k \in 1..(Cardinality(ps) + 1) |->
        SubSeq(s, Boundary(ps, k - 1, s) + 1, Boundary(ps, k, s) - 1)]

\* s.split(c) for a one-character separator
SplitOn(c, s) == PiecesBetween(PositionsOf(c, s), s)

\* the value of url.searchParams.get(name), <<>> when the query has no such
\* parameter ('+' is read as a space; no input holds a % escape or a '#')
QueryOf(link) ==
    IF Includes(link, "?")
    THEN Join(Tail(SplitOn("?", link)), "?")
    ELSE ""

PairsNamed(query, name) ==
    SelectSeq(SplitOn("&", query), LAMBDA kv : SplitOn("=", kv)[1] = name)

ValueOf(kv) == Join(SplitOn("+", Join(Tail(SplitOn("=", kv)), "=")), " ")

SearchParam(link, name) ==
    IF PairsNamed(QueryOf(link), name) = <<>> THEN <<>>
    ELSE <<ValueOf(PairsNamed(QueryOf(link), name)[1])>>

\* value || fallback
OrElse(value, fallback) == IF value = <<>> \/ value = <<"">> THEN fallback ELSE value[1]

\* the i-th piece (1-based) of a destructured split, <<>> is undefined
Piece(parts, i) == IF i <= Len(parts) THEN <<parts[i]>> ELSE <<>>

\* txToLinks (part_000:314-322)
txToLinks(opts, testnet) ==
    [toncx |-> "https://" \o (IF testnet THEN "testnet." ELSE "") \o "ton.cx/tx/"
                  \o BigIntToString(opts.lt) \o ":" \o Base64Encode(opts.hash) \o ":"
                  \o AddressToString(opts.addr),
     tonviewer |-> "https://" \o (IF testnet THEN "testnet." ELSE "")
                  \o "tonviewer.com/transaction/" \o HexEncode(opts.hash),
     tonscan |-> "https://" \o (IF testnet THEN "testnet." ELSE "") \o "tonscan.org/tx/"
                  \o Base64Encode(opts.hash),
     toncoin |-> "https://" \o (IF testnet THEN "test-" ELSE "")
                  \o "explorer.toncoin.org/transaction?account="
                  \o AddressToString(opts.addr) \o "&lt=" \o BigIntToString(opts.lt)
                  \o "&hash=" \o HexEncode(opts.hash),
     dton |-> "https://" \o (IF testnet THEN "testnet." ELSE "") \o "dton.io/tx/"
                  \o "F64C6A3CDF3FAD1D786AACF9A6130F18F3F76EEB71294F53BBD812AD3703E70A"]

\* the URL shapes, in the order linkToTx tests them (part_000:126-182)
IsTonCx(link) ==
    StartsWith(link, "https://ton.cx/tx/") \/ StartsWith(link, "https://testnet.ton.cx/tx/")

IsTonviewer(link) ==
    \/ StartsWith(link, "https://tonviewer.com/")
    \/ StartsWith(link, "https://testnet.tonviewer.com/")

IsTonscan(link) ==
    \/ StartsWith(link, "https://tonscan.org/tx/")
    \/ StartsWith(link, "https://testnet.tonscan.org/tx/")

IsToncoin(link) ==
    \/ StartsWith(link, "https://explorer.toncoin.org/transaction")
    \/ StartsWith(link, "https://test-explorer.toncoin.org/transaction")

IsDton(link) ==
    StartsWith(link, "https://dton.io/tx") \/ StartsWith(link, "https://testnet.dton.io/tx")

\* the hash-only shape of the link, "" when it has none
HashOnlyShape(link) ==
    IF IsTonCx(link) THEN ""
    ELSE IF IsTonviewer(link) THEN "tonviewer"
    ELSE IF IsTonscan(link) THEN "tonscan"
    ELSE IF IsToncoin(link) THEN ""
    ELSE IF IsDton(link) THEN "dton"
    ELSE ""

\* forcedTestnet || txLink.includes(marker)
UrlTestnet(link, hint, marker) == Forced(hint) \/ Includes(link, marker)

\* txLink.slice(n)
SliceFrom(link, n) == Slice(link, n, Len(link))

\* infoPart of the hash-only shapes (part_000:145, 160, 186)
InfoPart(shape, link, testnet) ==
    IF shape = "tonviewer" THEN SliceFrom(link, IF testnet THEN 42 ELSE 34)
    ELSE IF shape = "tonscan" THEN SliceFrom(link, IF testnet THEN 31 ELSE 23)
    ELSE SliceFrom(link, IF testnet THEN 27 ELSE 19)

\* a mutation of ShapeHash: every shape is read as hex
ShapeHashHex(shape, infoPart) == BufferFromHex(infoPart)

\* Buffer.from(infoPart, 'hex' or 'base64') of the shape (part_000:150, 165, 191)
ShapeHash(shape, infoPart) ==
    IF shape = "tonscan" THEN BufferFromBase64(infoPart) ELSE BufferFromHex(infoPart)

\* the message of the SyntaxError of BigInt
NotABigInt(text) == "Cannot convert " \o text \o " to a BigInt"

\* lt, hash and addr of the pieces of a ton.cx link (part_000:134-137)
TonCxParts(parts, testnet) ==
    IF ~BigIntOf(parts[1])[1] THEN Rejected("SyntaxError", NotABigInt(parts[1]))
    ELSE IF Len(parts) < 2 THEN Rejected("TypeError", "The first argument must be a string")
    ELSE IF Len(parts) < 3 THEN Rejected("TypeError", UndefinedRead("length"))
    ELSE IF AddressParse(parts[3]) = <<>>
         THEN Rejected("Error", "Unknown address type: " \o parts[3])
    ELSE Resolved(BigIntOf(parts[1])[2], BufferFromBase64(parts[2]),
                  AddressParse(parts[3])[1], testnet)

\* the ton.cx branch (part_000:126-137)
TonCx(link, testnet) ==
    TonCxParts(SplitOn(":", SliceFrom(link, IF testnet THEN 26 ELSE 18)), testnet)

\* lt, hash and addr of the query of an explorer.toncoin.org link
\* (part_000:175-178)
ToncoinParams(ltStr, hashStr, account, testnet) ==
    IF ~BigIntOf(ltStr)[1] THEN Rejected("SyntaxError", NotABigInt(ltStr))
    ELSE IF AddressParse(account) = <<>>
         THEN Rejected("Error", "Unknown address type: " \o account)
    ELSE Resolved(BigIntOf(ltStr)[2], BufferFromHex(hashStr), AddressParse(account)[1],
                  testnet)

\* the explorer.toncoin.org branch (part_000:168-178)
Toncoin(link, testnet) ==
    ToncoinParams(OrElse(SearchParam(link, "lt"), "0"),
                  OrElse(SearchParam(link, "hash"), ""),
                  OrElse(SearchParam(link, "account"), ""), testnet)

\* triedFormats as linkToTx creates it (part_000:195-201)
InitialFormats == <<"ton.cx", "tonviewer", "tonscan", "toncoin.org", "dton">>

\* a mutation of NewFrame: triedFormats outlives the call, as a variable of
\* the module would
NewFrameStale(link) ==
    Frame("", link, FALSE,
          IF frame.triedFormats = <<>> THEN InitialFormats ELSE frame.triedFormats,
          0, <<>>, "")

\* the frame of a call of linkToTx(link, ...)
NewFrame(link) == Frame("", link, FALSE, InitialFormats, 0, <<>>, "")

\* an entry of trace: a lookup issued on a network, its answer ("down",
\* "empty" or "found"), the call of waitForRateLimit and its return
Event(kind, testnet, outcome) == [kind |-> kind, testnet |-> testnet, outcome |-> outcome]

AnswerKind(ans) ==
    IF ans.thrown THEN "down" ELSE IF ans.transactions = <<>> THEN "empty" ELSE "found"

\* the call ends with the outcome; tr and fl are trace and inFlight then
Return(f, outcome, tr, fl) ==
    /\ results' = Append(results, outcome)
    /\ frame' = [f EXCEPT !.pc = "idle"]
    /\ trace' = tr
    /\ inFlight' = fl

\* the call suspends at await fetchTransactions({hash: param, limit: 1}, testnet)
Issue(f, pc, testnet, param, tr, fl) ==
    /\ frame' = [f EXCEPT !.pc = pc, !.testnet = testnet, !.hashStr = param]
    /\ trace' = Append(tr, Event("lookup", testnet, ""))
    /\ inFlight' = fl \cup {testnet}
    /\ UNCHANGED results

\* a mutation of BeginWait: the lookup that follows the wait is issued at
\* once, without the call of waitForRateLimit
BeginWaitSkipped(f, pc, tr, fl) ==
    IF pc = "lt_wait" THEN Issue(f, "lt_testnet", TRUE, f.hashStr, tr, fl)
    ELSE IF pc = "bare_retry_wait" THEN Issue(f, "bare_testnet", TRUE, f.txLink, tr, fl)
    ELSE Issue(f, IF f.testnet THEN "bare_forced" ELSE "bare_mainnet", f.testnet,
               f.txLink, tr, fl)

\* the call suspends at await waitForRateLimit() (part_000:233, 262, 286)
BeginWait(f, pc, tr, fl) ==
    /\ frame' = [f EXCEPT !.pc = pc]
    /\ trace' = Append(tr, Event("wait", f.testnet, ""))
    /\ inFlight' = fl
    /\ UNCHANGED results

\* txLink of the bare hash tier: base64 is converted to hex (part_000:247-250)
BareLink(txLink) ==
    IF EndsWith(txLink, "=") THEN HexEncode(BufferFromBase64(txLink)) ELSE txLink

BareTierOn(f, link, hint, tr, fl) ==
    IF Len(link) # 64
    THEN Return(f, CouldntRecognize(f.triedFormats, StrangeError(NotOfLength64)), tr, fl)
    ELSE BeginWait([f EXCEPT !.txLink = link, !.testnet = Forced(hint)], "bare_wait", tr, fl)

\* the catch of the lt:hash tier up to its first await (part_000:244-262)
BareTier(f, hint, tr, fl) == BareTierOn(f, BareLink(f.txLink), hint, tr, fl)

\* the lt:hash tier up to its first await (part_000:202-225): BigInt throws
\* on an ltStr that is no integer, Buffer.from on an undefined hashStr
LtHashTier(f, parts, hint, tr, fl) ==
    IF ~BigIntOf(parts[1])[1] \/ Len(parts) < 2 THEN BareTier(f, hint, tr, fl)
    ELSE Issue([f EXCEPT !.lt = BigIntOf(parts[1])[2], !.hash = BufferFromHex(parts[2])],
               IF Forced(hint) THEN "lt_forced" ELSE "lt_mainnet", Forced(hint),
               parts[2], tr, fl)

\* a hash-only URL shape up to its await (part_000:138-149, 153-164, 179-190)
HashOnly(shape, link, testnet) ==
    Issue(Frame(shape, link, testnet, <<>>, 0, <<>>, ""), shape, testnet,
          InfoPart(shape, link, testnet), <<>>, {})

\* linkToTx(link, hint) up to its first await, or to its end
Start(link, hint) ==
    IF IsTonCx(link)
    THEN Return(NewFrame(link), TonCx(link, UrlTestnet(link, hint, "testnet.")), <<>>, {})
    ELSE IF HashOnlyShape(link) # ""
         THEN HashOnly(HashOnlyShape(link), link, UrlTestnet(link, hint, "testnet."))
    ELSE IF IsToncoin(link)
         THEN Return(NewFrame(link), Toncoin(link, UrlTestnet(link, hint, "test-")), <<>>, {})
    ELSE LtHashTier(NewFrame(link), SplitOn(":", link), hint, <<>>, {})

\* the locator of a hash-only URL or of the bare hash tier: address and
\* logical time are those of the answer (part_000:150-152, 296-298)
FromAnswer(hash, transaction, testnet) ==
    IF AddressParseRaw(transaction.account) = <<>>
    THEN Rejected("Error", "Invalid address " \o transaction.account)
    ELSE Resolved(BigIntOf(transaction.lt)[2], hash,
                  AddressParseRaw(transaction.account)[1], testnet)

\* the outcome of a hash-only URL shape once its lookup has answered
UrlOutcome(f, ans) ==
    IF ans.thrown THEN Rejected("Error", FetchError)
    ELSE IF ans.transactions = <<>> THEN Rejected("TypeError", UndefinedRead("account"))
    ELSE FromAnswer(ShapeHash(f.pc, f.hashStr), ans.transactions[1], f.testnet)

\* the trace with the answer of the lookup in flight
Answered(f, ans) == Append(trace, Event("answer", f.testnet, AnswerKind(ans)))

\* a mutation of Retries: the testnet attempt is made whatever the mainnet
\* lookup answered
RetriesAlways(ans) == ans.thrown \/ ans.transactions = <<>> \/ TRUE

\* the inner try of a tier fails: the mainnet lookup throws or its list is
\* empty (part_000:221-230, 269-281)
Retries(ans) == ans.thrown \/ ans.transactions = <<>>

\* triedFormats after the lookup named name has answered
Tried(f, ans, name) ==
    IF ~ans.thrown /\ ans.transactions = <<>> THEN Append(f.triedFormats, name)
    ELSE f.triedFormats

\* the variables no step of linkToTx changes
ResolverFrame ==
    UNCHANGED <<reference, forcedTestnet, index, shardVars, stackVars, diffVars, appVars>>

\* the calls of linkToTx in a run, one after the other
MaxCalls == 2

\* a call linkToTx(reference, forcedTestnet), up to its first await
linkToTx ==
    /\ frame.pc = "idle"
    /\ Len(results) < MaxCalls
    /\ Start(reference, forcedTestnet)
    /\ ResolverFrame

\* the lookup of a hash-only URL shape answers (part_000:146-152, 161-167,
\* 187-193)
UrlLookupAnswers ==
    /\ frame.pc \in {"tonviewer", "tonscan", "dton"}
    /\ Return(frame, UrlOutcome(frame, Answer(index, frame.testnet, frame.hashStr)),
              Answered(frame, Answer(index, frame.testnet, frame.hashStr)),
              inFlight \ {frame.testnet})
    /\ ResolverFrame

LtForcedAnswer(f, ans, hint, tr, fl) ==
    IF Retries(ans) \/ AddressParseRaw(ans.transactions[1].account) = <<>>
    THEN BareTier(f, hint, tr, fl)
    ELSE Return(f, Resolved(f.lt, f.hash, AddressParseRaw(ans.transactions[1].account)[1],
                            f.testnet), tr, fl)

\* the lookup of the lt:hash tier on the forced network answers
\* (part_000:215-219, 243)
LtHashForcedAnswers ==
    /\ frame.pc = "lt_forced"
    /\ LtForcedAnswer(frame, Answer(index, frame.testnet, frame.hashStr), forcedTestnet,
                      Answered(frame, Answer(index, frame.testnet, frame.hashStr)),
                      inFlight \ {frame.testnet})
    /\ ResolverFrame

LtMainnetAnswer(f, ans, hint, tr, fl) ==
    IF Retries(ans)
    THEN BeginWait([f EXCEPT !.testnet = TRUE,
                             !.triedFormats = Tried(f, ans, "lt:hash mainnet")],
                   "lt_wait", tr, fl)
    ELSE IF AddressParseRaw(ans.transactions[1].account) = <<>>
         THEN BareTier(f, hint, tr, fl)
    ELSE Return(f, Resolved(f.lt, f.hash, AddressParseRaw(ans.transactions[1].account)[1],
                            f.testnet), tr, fl)

\* the mainnet lookup of the lt:hash tier answers (part_000:221-233, 243)
LtHashMainnetAnswers ==
    /\ frame.pc = "lt_mainnet"
    /\ LtMainnetAnswer(frame, Answer(index, frame.testnet, frame.hashStr), forcedTestnet,
                       Answered(frame, Answer(index, frame.testnet, frame.hashStr)),
                       inFlight \ {frame.testnet})
    /\ ResolverFrame

\* waitForRateLimit of the lt:hash retry returns (part_000:233-237)
LtHashRetryWaitEnds ==
    /\ frame.pc = "lt_wait"
    /\ Issue(frame, "lt_testnet", TRUE, frame.hashStr,
             Append(trace, Event("waited", frame.testnet, "")), inFlight)
    /\ ResolverFrame

LtTestnetAnswer(f, ans, hint, tr, fl) ==
    IF Retries(ans) \/ AddressParseRaw(ans.transactions[1].account) = <<>>
    THEN BareTier([f EXCEPT !.triedFormats = Tried(f, ans, "lt:hash testnet")], hint, tr, fl)
    ELSE Return(f, Resolved(f.lt, f.hash, AddressParseRaw(ans.transactions[1].account)[1],
                            f.testnet), tr, fl)

\* the testnet lookup of the lt:hash tier answers (part_000:234-243)
LtHashTestnetAnswers ==
    /\ frame.pc = "lt_testnet"
    /\ LtTestnetAnswer(frame, Answer(index, frame.testnet, frame.hashStr), forcedTestnet,
                       Answered(frame, Answer(index, frame.testnet, frame.hashStr)),
                       inFlight \ {frame.testnet})
    /\ ResolverFrame

\* waitForRateLimit of the bare hash tier returns (part_000:262-276)
BareWaitEnds ==
    /\ frame.pc = "bare_wait"
    /\ Issue(frame, IF Forced(forcedTestnet) THEN "bare_forced" ELSE "bare_mainnet",
             Forced(forcedTestnet), frame.txLink,
             Append(trace, Event("waited", frame.testnet, "")), inFlight)
    /\ ResolverFrame

\* the outcome of the bare hash tier on a found transaction (part_000:296-298)
BareLocated(transaction, testnet) ==
    FromAnswer(BufferFromBase64(transaction.hash), transaction, testnet)

\* the rejection of part_000:299-308 for an error of the bare hash tier
\* that is not 'nope'
StrangeOutcome(f, outcome) ==
    IF outcome.kind = "locator" THEN outcome
    ELSE CouldntRecognize(f.triedFormats, StrangeError(outcome.message))

BareForcedOutcome(f, ans) ==
    IF ans.thrown THEN CouldntRecognize(f.triedFormats, StrangeError(FetchError))
    ELSE IF ans.transactions = <<>>
         THEN CouldntRecognize(f.triedFormats, StrangeError(UndefinedRead("hash")))
    ELSE StrangeOutcome(f, BareLocated(ans.transactions[1], f.testnet))

\* the lookup of the bare hash tier on the forced network answers
\* (part_000:263-267, 296-308)
BareForcedAnswers ==
    /\ frame.pc = "bare_forced"
    /\ Return(frame, BareForcedOutcome(frame, Answer(index, frame.testnet, frame.hashStr)),
              Answered(frame, Answer(index, frame.testnet, frame.hashStr)),
              inFlight \ {frame.testnet})
    /\ ResolverFrame

BareMainnetAnswer(f, ans, tr, fl) ==
    IF Retries(ans)
    THEN BeginWait([f EXCEPT !.testnet = TRUE,
                             !.triedFormats = Tried(f, ans, "bare hash mainnet")],
                   "bare_retry_wait", tr, fl)
    ELSE Return(f, StrangeOutcome(f, BareLocated(ans.transactions[1], f.testnet)), tr, fl)

\* the mainnet lookup of the bare hash tier answers (part_000:269-286, 296-308)
BareMainnetAnswers ==
    /\ frame.pc = "bare_mainnet"
    /\ BareMainnetAnswer(frame, Answer(index, frame.testnet, frame.hashStr),
                         Answered(frame, Answer(index, frame.testnet, frame.hashStr)),
                         inFlight \ {frame.testnet})
    /\ ResolverFrame

\* waitForRateLimit of the bare hash retry returns (part_000:286-290)
BareRetryWaitEnds ==
    /\ frame.pc = "bare_retry_wait"
    /\ Issue(frame, "bare_testnet", TRUE, frame.txLink,
             Append(trace, Event("waited", frame.testnet, "")), inFlight)
    /\ ResolverFrame

BareTestnetOutcome(f, ans) ==
    IF ans.thrown THEN CouldntRecognize(f.triedFormats, StrangeError(FetchError))
    ELSE IF ans.transactions = <<>>
         THEN CouldntRecognize(Append(f.triedFormats, "bare hash testnet"), "")
    ELSE StrangeOutcome(f, BareLocated(ans.transactions[1], f.testnet))

\* the testnet lookup of the bare hash tier answers (part_000:287-308)
BareTestnetAnswers ==
    /\ frame.pc = "bare_testnet"
    /\ Return(frame, BareTestnetOutcome(frame, Answer(index, frame.testnet, frame.hashStr)),
              Answered(frame, Answer(index, frame.testnet, frame.hashStr)),
              inFlight \ {frame.testnet})
    /\ ResolverFrame

(* The value a call of linkToTx settles with, for its caller: the steps     *)
(* above taken to the end of the call on an index that does not change.    *)

\* the bare hash tier from its mainnet answer on (part_000:269-308)
BareUnforcedSettles(f, mainnet, testnet) ==
    IF Retries(mainnet)
    THEN BareTestnetOutcome([f EXCEPT !.testnet = TRUE,
                                      !.triedFormats = Tried(f, mainnet, "bare hash mainnet")],
                            testnet)
    ELSE StrangeOutcome(f, BareLocated(mainnet.transactions[1], FALSE))

\* the bare hash tier on the converted link (part_000:252-308)
BareSettlesOn(f, link, hint, idx) ==
    IF Len(link) # 64
    THEN CouldntRecognize(f.triedFormats, StrangeError(NotOfLength64))
    ELSE IF Forced(hint)
         THEN BareForcedOutcome([f EXCEPT !.testnet = TRUE], Answer(idx, TRUE, link))
    ELSE BareUnforcedSettles([f EXCEPT !.testnet = FALSE], Answer(idx, FALSE, link),
                             Answer(idx, TRUE, link))

BareSettles(f, hint, idx) == BareSettlesOn(f, BareLink(f.txLink), hint, idx)

\* a lookup of the lt:hash tier gives no address: the inner try throws
LtFails(ans) == Retries(ans) \/ AddressParseRaw(ans.transactions[1].account) = <<>>

LtLocated(f, ans, testnet) ==
    Resolved(f.lt, f.hash, AddressParseRaw(ans.transactions[1].account)[1], testnet)

\* the lt:hash tier on the forced network (part_000:215-219, 243)
LtForcedSettles(f, ans, hint, idx) ==
    IF LtFails(ans) THEN BareSettles(f, hint, idx) ELSE LtLocated(f, ans, TRUE)

\* the lt:hash tier after its mainnet lookup has failed (part_000:230-243)
LtRetrySettles(f, testnet, hint, idx) ==
    IF LtFails(testnet)
    THEN BareSettles([f EXCEPT !.triedFormats = Tried(f, testnet, "lt:hash testnet")],
                     hint, idx)
    ELSE LtLocated(f, testnet, TRUE)

\* the lt:hash tier with no forced network (part_000:221-243)
LtUnforcedSettles(f, mainnet, testnet, hint, idx) ==
    IF Retries(mainnet)
    THEN LtRetrySettles([f EXCEPT !.triedFormats = Tried(f, mainnet, "lt:hash mainnet")],
                        testnet, hint, idx)
    ELSE IF LtFails(mainnet) THEN BareSettles(f, hint, idx)
    ELSE LtLocated(f, mainnet, FALSE)

LtHashSettlesOn(f, hashStr, hint, idx) ==
    IF Forced(hint) THEN LtForcedSettles(f, Answer(idx, TRUE, hashStr), hint, idx)
    ELSE LtUnforcedSettles(f, Answer(idx, FALSE, hashStr), Answer(idx, TRUE, hashStr),
                           hint, idx)

\* the lt:hash tier and the tiers after it (part_000:194-309)
LtHashSettles(f, parts, hint, idx) ==
    IF ~BigIntOf(parts[1])[1] \/ Len(parts) < 2 THEN BareSettles(f, hint, idx)
    ELSE LtHashSettlesOn([f EXCEPT !.lt = BigIntOf(parts[1])[2],
                                   !.hash = BufferFromHex(parts[2])],
                         parts[2], hint, idx)

\* a hash-only URL shape (part_000:138-193)
HashOnlySettles(shape, link, testnet, idx) ==
    UrlOutcome(Frame(shape, link, testnet, <<>>, 0, <<>>, InfoPart(shape, link, testnet)),
               Answer(idx, testnet, InfoPart(shape, link, testnet)))

\* what await linkToTx(link, hint) gives on the index idx (part_000:117-312)
linkToTxSettles(link, hint, idx) ==
    IF IsTonCx(link) THEN TonCx(link, UrlTestnet(link, hint, "testnet."))
    ELSE IF HashOnlyShape(link) # ""
         THEN HashOnlySettles(HashOnlyShape(link), link,
                              UrlTestnet(link, hint, "testnet."), idx)
    ELSE IF IsToncoin(link) THEN Toncoin(link, UrlTestnet(link, hint, "test-"))
    ELSE LtHashSettles(NewFrame(link), SplitOn(":", link), hint, idx)

\* the hash of MainnetTx and TestnetTx in hex and in base64
HexA == HexEncode(HashA)

Base64A == Base64Encode(HashA)

\* a reference of 64 characters that is not hex and does not end in '='
NotHex64 == "zz" \o SubSeq(HexA, 3, 64)

\* a reference of 64 characters of the form lt:hash
LtHash64 == "1:" \o SubSeq(HexA, 1, 62)

\* the explorer links of a locator
LinksOf(opts, testnet) ==
    {txToLinks(opts, testnet).toncx, txToLinks(opts, testnet).tonviewer,
     txToLinks(opts, testnet).tonscan, txToLinks(opts, testnet).toncoin,
     txToLinks(opts, testnet).dton}

\* the references linkToTx is called on: the links of the two transactions,
\* the bare lt:hash, the bare hash in hex and in base64, a hash with a
\* letter missing, two 64-character texts that are no hash, the empty text
References ==
    LinksOf(MainnetTx, FALSE) \cup LinksOf(TestnetTx, TRUE)
        \cup {"47670702:" \o HexA, HexA, Base64A, SubSeq(HexA, 1, 63), NotHex64, "",
              LtHash64, "https://dton.io/tx/" \o HexA}

\* forcedTestnet: undefined, false, true
Hints == {<<>>, <<FALSE>>, <<TRUE>>}

\* each network's index is out of reach, holds no transaction or holds its
\* transaction; it does not change during a run
Indexes == [BOOLEAN -> {"down", "empty", "has"}]

InitResolve ==
    /\ reference \in References
    /\ forcedTestnet \in Hints
    /\ index \in Indexes
    /\ frame = NoFrame
    /\ trace = <<>>
    /\ inFlight = {}
    /\ results = <<>>
    /\ ShardIdle
    /\ StackIdle
    /\ DiffIdle
    /\ AppIdle

NextResolve ==
    \/ linkToTx
    \/ UrlLookupAnswers
    \/ LtHashForcedAnswers
    \/ LtHashMainnetAnswers
    \/ LtHashRetryWaitEnds
    \/ LtHashTestnetAnswers
    \/ BareWaitEnds
    \/ BareForcedAnswers
    \/ BareMainnetAnswers
    \/ BareRetryWaitEnds
    \/ BareTestnetAnswers

SpecResolve == InitResolve /\ [][NextResolve]_vars

\* the positions of the lookups in the trace
Lookups(tr) == {k \in 1..Len(tr) : tr[k].kind = "lookup"}

\* a call has ended and trace is the trace of the latest one
Ended == frame.pc = "idle" /\ results # <<>>

\* the outcome of the latest call
Latest == results[Len(results)]

\* the value a call settles with is the outcome its steps end with
SettlesAsStepped ==
    Ended => Latest = linkToTxSettles(reference, forcedTestnet, index)


\* C11: on a reference of 64 characters that is not hex and does not end in
\* '=', linkToTx rejects with a ResolutionError without any lookup.
C11_MalformedHashNoLookup ==
    (Len(reference) = 64 /\ ~IsHex64(reference) /\ ~EndsWith(reference, "=")) =>
        /\ Lookups(trace) = {}
        /\ inFlight = {}
        /\ \A k \in 1..Len(results) : results[k].kind = "ResolutionError"

\* C12: two calls of linkToTx with the same reference and the same hint on
\* an unchanged index have the same outcome: locator and network flag, or
\* the same error.
C12_Idempotent == Len(results) = 2 => results[1] = results[2]

\* the bare hash is found by the testnet retry, twice
C12_Witness ==
    /\ Len(results) = 2
    /\ reference = Base64A
    /\ forcedTestnet = <<>>
    /\ results[2] = Resolved(47670703, HashA, AddrB, TRUE)
    /\ index[FALSE] = "empty"

\* C13: for a mainnet tonscan link without hint the hash parameter is the
\* hash text of the link, there is exactly one lookup, it is on mainnet, and
\* on a non-empty answer the outcome is the locator of the decoded hash with
\* testnet = false.
C13_TonscanMainnet ==
    (reference = txToLinks(MainnetTx, FALSE).tonscan /\ forcedTestnet = <<>>) =>
        /\ \A k \in Lookups(trace) : ~trace[k].testnet
        /\ Cardinality(Lookups(trace)) <= 1
        /\ frame.pc # "idle" => (frame.hashStr = Base64A /\ inFlight = {FALSE})
        /\ Ended =>
              /\ Cardinality(Lookups(trace)) = 1
              /\ index[FALSE] = "has" => Latest = Resolved(47670702, HashA, AddrA, FALSE)

C13_Witness ==
    /\ reference = "https://tonscan.org/tx/Pl9JeY3iOdpdj4C03DACBNN2E+QgOj97h3wEqIyBhWs="
    /\ forcedTestnet = <<>>
    /\ Ended
    /\ Latest = Resolved(47670702, HashA, AddrA, FALSE)
    /\ trace = <<Event("lookup", FALSE, ""), Event("answer", FALSE, "found")>>

\* the reference goes to the bare lt:hash and bare hash tiers
InTiers(link) ==
    ~(IsTonCx(link) \/ IsTonviewer(link) \/ IsTonscan(link) \/ IsToncoin(link)
        \/ IsDton(link))

\* C14: in the tiers without hint, at most one lookup is in flight, a testnet
\* lookup directly follows an answered mainnet lookup, and a non-empty
\* mainnet answer ends the call with testnet = false.
C14_MainnetBeforeTestnet ==
    (InTiers(reference) /\ forcedTestnet = <<>>) =>
        /\ Cardinality(inFlight) <= 1
        /\ \A k \in Lookups(trace) :
              trace[k].testnet =>
                  \E j \in 1..(k - 1) :
                      /\ trace[j].kind = "answer"
                      /\ ~trace[j].testnet
                      /\ \A m \in (j + 1)..(k - 1) : trace[m].kind \in {"wait", "waited"}
        /\ \A j \in 1..Len(trace) :
              (trace[j].kind = "answer" /\ ~trace[j].testnet /\ trace[j].outcome = "found")
                  => /\ j = Len(trace)
                     /\ Ended
                     /\ Latest.kind = "locator"
                     /\ ~Latest.testnet

C14_Witness ==
    /\ reference = "47670702:" \o HexA
    /\ forcedTestnet = <<>>
    /\ Ended
    /\ Latest = Resolved(47670702, HashA, AddrB, TRUE)
    /\ Cardinality(Lookups(trace)) = 2

\* C15: with a hint every lookup goes to the hinted network; a testnet
\* lookup after a mainnet lookup is made only without hint and after an
\* empty mainnet answer.
C15_HintedNetworkOnly ==
    /\ forcedTestnet # <<>> => \A k \in Lookups(trace) : trace[k].testnet = forcedTestnet[1]
    /\ \A k \in Lookups(trace) :
          (trace[k].testnet /\ \E j \in Lookups(trace) : j < k /\ ~trace[j].testnet)
              => /\ forcedTestnet = <<>>
                 /\ \E j \in 1..(k - 1) :
                       /\ trace[j] = Event("answer", FALSE, "empty")
                       /\ \A m \in (j + 1)..(k - 1) : trace[m].kind \in {"wait", "waited"}

\* every lookup of the trace has answered with an empty list
AllEmpty(tr) ==
    /\ Lookups(tr) # {}
    /\ \A k \in 1..Len(tr) : tr[k].kind = "answer" => tr[k].outcome = "empty"

NetworkName(testnet) == IF testnet THEN "testnet" ELSE "mainnet"

\* C16: when every lookup of a call comes back empty, the call rejects with
\* a ResolutionError whose message names every combination attempted (for a
\* bare hash: 'bare hash ' and the network of each lookup).
C16_AllAttemptsListed ==
    (Ended /\ AllEmpty(trace)) =>
        /\ Latest.kind = "ResolutionError"
        /\ reference \in {HexA, Base64A} =>
              \A k \in Lookups(trace) :
                  Includes(Latest.message, "bare hash " \o NetworkName(trace[k].testnet))

\* C17: a lookup that follows another lookup of the same call comes right
\* after a waitForRateLimit that has returned and that was called after the
\* earlier lookup had answered.
C17_WaitBeforeLaterLookup ==
    \A k \in Lookups(trace) :
        (\E j \in Lookups(trace) : j < k) =>
            /\ k > 3
            /\ trace[k - 1].kind = "waited"
            /\ trace[k - 2].kind = "wait"
            /\ trace[k - 3].kind = "answer"

\* both lookups of the lt:hash tier fail, then the bare hash tier waits
C17_Witness ==
    /\ Ended
    /\ reference = LtHash64
    /\ Cardinality(Lookups(trace)) = 4
    /\ Len(trace) = 14
    /\ Latest.kind = "ResolutionError"

\* the locators of the round trip, each with the network of its index
RoundTrips == {<<MainnetTx, FALSE>>, <<TestnetTx, TRUE>>}

\* C19: each of the five links of txToLinks(L, t) holds the hash of L in hex
\* or in base64, and linkToTx on the link, with L in the index of network t,
\* resolves to L with testnet = t.
C19_LinksRoundTrip ==
    \A lt \in RoundTrips :
        (reference \in LinksOf(lt[1], lt[2]) /\ forcedTestnet = <<>> /\ index[lt[2]] = "has")
            => /\ \/ Includes(reference, HexEncode(lt[1].hash))
                  \/ Includes(reference, ToUpper(HexEncode(lt[1].hash)))
                  \/ Includes(reference, Base64Encode(lt[1].hash))
               /\ Ended => Latest = Resolved(lt[1].lt, lt[1].hash, lt[1].addr, lt[2])

\* C20: for a hash-only URL shape an empty answer of the lookup makes
\* linkToTx reject with a ResolutionError.
C20_EmptyListNotFound ==
    (HashOnlyShape(reference) # "" /\ Ended /\ AllEmpty(trace)) =>
        Latest.kind = "ResolutionError"

\* the prefixes of the explorer URL shapes, in the mainnet and in the
\* testnet host form
UrlPrefixes ==
    {"https://ton.cx/tx/", "https://testnet.ton.cx/tx/",
     "https://tonviewer.com/transaction/", "https://testnet.tonviewer.com/transaction/",
     "https://tonscan.org/tx/", "https://testnet.tonscan.org/tx/",
     "https://dton.io/tx/", "https://testnet.dton.io/tx/"}

\* the reference begins with the prefix of a shape whose payload follows it
PrefixedUrl(link) == \E p \in UrlPrefixes : StartsWith(link, p)

\* the text that follows the URL's own prefix
Payload(link) ==
    LET p == CHOOSE q \in UrlPrefixes : StartsWith(link, q)
    IN  SubSeq(link, Len(p) + 1, Len(link))

\* lt, hash and address of an outcome, and whether it is a locator
Located(outcome) == <<outcome.kind = "locator", outcome.lt, outcome.hash, outcome.addr>>

\* C25: the payload of an explorer URL is the text that follows the URL's
\* own prefix, whatever the hint: the hash text of the lookup a hash-only
\* shape issues is that payload, and lt, hash and address of a ton.cx link
\* are read from its three ':' separated pieces.
C25_PayloadAfterOwnPrefix ==
    (PrefixedUrl(reference) /\ frame.txLink = reference) =>
        /\ HashOnlyShape(reference) # "" => frame.hashStr = Payload(reference)
        /\ (IsTonCx(reference) /\ Ended) =>
              Located(Latest) = Located(TonCxParts(SplitOn(":", Payload(reference)), FALSE))


-----------------------------------------------------------------------------
(* mcSeqnoByShard, src/unnamed/part_000:38-86.                             *)

\* a block of the answer of /api/v3/blocks: the fields mcSeqnoByShard reads
\* (seqno is masterchain_block_ref.seqno)
Block(root_hash, seqno, rand_seed) ==
    [root_hash |-> root_hash, seqno |-> seqno, rand_seed |-> rand_seed]

\* the outcome of mcSeqnoByShard: the value it resolves to or the Error it
\* rejects with
SeqnoValue(mcSeqno, randSeed) ==
    [kind |-> "value", mcSeqno |-> mcSeqno, randSeed |-> randSeed, message |-> ""]

\* the catch of part_000:78-85 wraps every Error
SeqnoError(message) ==
    [kind |-> "Error", mcSeqno |-> 0, randSeed |-> <<>>,
     message |-> "Get blocks on Toncenter V3: " \o message]

\* BigInt(text) does not throw: a signed decimal literal (a shard id holds no
\* other form); the value itself, of 64 bits, only goes into the request
IsBigIntLiteral(text) ==
    \/ AllIn(text, Digits)
    \/ Char(text, 1) = "-" /\ Len(text) > 1 /\ AllIn(SubSeq(text, 2, Len(text)), Digits)

\* a mutation of mcSeqnoByShard: the block is trusted without the comparison
\* of the root hashes
mcSeqnoByShardUnchecked(shardArg, res) ==
    IF ~IsBigIntLiteral(shardArg.shard)
    THEN SeqnoError(NotABigInt(shardArg.shard))
    ELSE IF res.failed THEN SeqnoError("Network Error")
    ELSE IF res.blocks = <<>> THEN SeqnoError(UndefinedRead("root_hash"))
    ELSE SeqnoValue(res.blocks[1].seqno, BufferFromBase64(res.blocks[1].rand_seed))

\* mcSeqnoByShard(shard, testnet) on the answer res of the request
mcSeqnoByShard(shardArg, res) ==
    IF ~IsBigIntLiteral(shardArg.shard)
    THEN SeqnoError(NotABigInt(shardArg.shard))
    ELSE IF res.failed THEN SeqnoError("Network Error")
    ELSE IF res.blocks = <<>> THEN SeqnoError(UndefinedRead("root_hash"))
    ELSE IF res.blocks[1].root_hash # shardArg.rootHash
         THEN SeqnoError("rootHash mismatch in mc_seqno getter: " \o shardArg.rootHash
                             \o " != " \o res.blocks[1].root_hash)
    ELSE SeqnoValue(res.blocks[1].seqno, BufferFromBase64(res.blocks[1].rand_seed))

\* the blocks of an answer
MaxBlocks == 2

RootHashes == {"Pl9J", "9kxq"}

Seqnos == {41, 42}

RandSeeds == {"AQI=", "AwQ="}

Blocks == {Block(h, n, r) : h \in RootHashes, n \in Seqnos, r \in RandSeeds}

Responses ==
    {[failed |-> TRUE, blocks |-> <<>>]}
        \cup {[failed |-> FALSE, blocks |-> bs] : bs \in SeqsUpTo(Blocks, MaxBlocks)}

Shards ==
    {[workchain |-> 0, seqno |-> 7, shard |-> sh, rootHash |-> h] :
        sh \in {"-9223372036854775808", "x"}, h \in RootHashes}

InitShard ==
    /\ shard \in Shards
    /\ response \in Responses
    /\ seqnoResult = Pending
    /\ ResolverIdle
    /\ StackIdle
    /\ DiffIdle
    /\ AppIdle

\* a call mcSeqnoByShard(shard, testnet) and the answer of its request
LookupShard ==
    /\ seqnoResult = Pending
    /\ seqnoResult' = mcSeqnoByShard(shard, response)
    /\ UNCHANGED <<shard, response, resolverVars, stackVars, diffVars, appVars>>

NextShard == LookupShard

SpecShard == InitShard /\ [][NextShard]_vars

\* C18: mcSeqnoByShard returns a seqno and a seed only when the first block
\* of the answer has the root hash of the shard, and then they are those of
\* that block; on a mismatch it rejects with an Error and returns neither.
C18_RootHashChecked ==
    /\ seqnoResult.kind = "value" =>
          /\ ~response.failed
          /\ response.blocks # <<>>
          /\ response.blocks[1].root_hash = shard.rootHash
          /\ seqnoResult.mcSeqno = response.blocks[1].seqno
          /\ seqnoResult.randSeed = BufferFromBase64(response.blocks[1].rand_seed)
    /\ (/\ seqnoResult # Pending
        /\ ~response.failed
        /\ response.blocks # <<>>
        /\ response.blocks[1].root_hash # shard.rootHash)
          => /\ seqnoResult.kind = "Error"
             /\ seqnoResult.mcSeqno = 0
             /\ seqnoResult.randSeed = <<>>

C18_Witness ==
    /\ seqnoResult.kind = "value"
    /\ seqnoResult.mcSeqno = 42
    /\ seqnoResult.randSeed = <<3, 4>>
    /\ Len(response.blocks) = 2
    /\ response.blocks[2].root_hash # shard.rootHash

-----------------------------------------------------------------------------
(* The step browser of App: the catalog fetch, viewTransaction and the     *)
(* step handlers, src/src/App.tsx.                                         *)

\* the steps of an emulation and the calls of viewTransaction in a session
MaxSteps == 2

MaxViews == 2

\* the catalog document of the browser runs
BrowserCatalog == <<XCHG_0I, SWAP, RET>>

Documents == {<<>>, BrowserCatalog}

BrowserTexts == {"XCHG s0, s3", "implicit RET"}

\* the computeLogs (their instruction texts) an emulation can return
Emulations == SeqsUpTo(BrowserTexts, MaxSteps)

\* encodeURIComponent: the escapes of the characters of a reference that
\* are not left as they are
Escapes ==
    [c \in {":", "/", "?", "&", "=", "+", " "} |->
        CASE c = ":" -> "%3A" [] c = "/" -> "%2F" [] c = "?" -> "%3F"
          [] c = "&" -> "%26" [] c = "=" -> "%3D" [] c = "+" -> "%2B"
          [] OTHER -> "%20"]

RECURSIVE encodeURIComponent(_)
encodeURIComponent(text) ==
    IF text = "" THEN ""
    ELSE (IF Char(text, 1) \in DOMAIN Escapes THEN Escapes[Char(text, 1)]
          ELSE Char(text, 1)) \o encodeURIComponent(SubSeq(text, 2, Len(text)))

RECURSIVE decodeURIComponent(_)
decodeURIComponent(text) ==
    IF text = "" THEN ""
    ELSE IF Len(text) >= 3 /\ \E c \in DOMAIN Escapes : Escapes[c] = SubSeq(text, 1, 3)
         THEN (CHOOSE c \in DOMAIN Escapes : Escapes[c] = SubSeq(text, 1, 3))
                  \o decodeURIComponent(SubSeq(text, 4, Len(text)))
    ELSE Char(text, 1) \o decodeURIComponent(SubSeq(text, 2, Len(text)))

\* the parameters after updateURLWithTx(tx) of a render whose testnet is
\* flag (App.tsx:128-136): testnet is set when flag holds and is never
\* deleted
updateURLWithTx(params, tx, flag) ==
    SearchParams(IF flag THEN <<"true">> ELSE params.testnet, <<encodeURIComponent(tx)>>)

\* a call of viewTransaction (App.tsx:138-162): link and testnet of the
\* render it was made in, the await it is suspended at ("linkToTx",
\* "getEmulationWithStack") or how it ended ("returned", "caught"), and
\* whether emulationResult is the value it has set
ViewCall(txLink, flag, pc, displayed) ==
    [link |-> txLink, testnet |-> flag, pc |-> pc, displayed |-> displayed]

\* the calls once emulationResult is set anew, by call k or to undefined
\* (k = 0)
Redisplayed(calls, k) == [n \in 1..Len(calls) |-> [calls[n] EXCEPT !.displayed = (n = k)]]

\* the calls of viewTransaction that are suspended at pc
Suspended(pc) == {k \in 1..Len(views) : views[k].pc = pc}

\* the texts typed into the input: a bare hash and an explorer link of the
\* testnet transaction
TestnetLink == txToLinks(TestnetTx, TRUE).tonviewer

TypedLinks == {HexA, TestnetLink}

\* the pages the session is opened on: no parameter, and the replay of a
\* pushed URL
StartLocations == {NoParams, SearchParams(<<"true">>, <<HexA>>)}

\* the index holds the transaction on both networks, or on testnet only
SessionIndexes ==
    {[network \in BOOLEAN |-> "has"],
     [network \in BOOLEAN |-> IF network THEN "has" ELSE "empty"]}

\* the texts the input can hold
SessionLinks == TypedLinks \cup {decodeURIComponent(OrElse(p.tx, "")) : p \in StartLocations}

\* what await linkToTx(link, testnet) of viewTransaction gives (App.tsx:145),
\* for every text of the input, flag and index of the sessions
Settlements ==
    [txLink \in SessionLinks, flag \in BOOLEAN, idx \in SessionIndexes |->
        linkToTxSettles(txLink, <<flag>>, idx)]

\* what linkToTx gives, or has given, to a call of viewTransaction
Settled(call) == Settlements[call.link, call.testnet, index]

\* tx.hash.toString('hex') of the locators among them (App.tsx:153)
HexOfSettlements ==
    [txLink \in SessionLinks, flag \in BOOLEAN, idx \in SessionIndexes |->
        IF Settlements[txLink, flag, idx].kind = "locator"
        THEN HexEncode(Settlements[txLink, flag, idx].hash) ELSE ""]

HashHex(call) == HexOfSettlements[call.link, call.testnet, index]

\* tx and testnet of the page (App.tsx:101-106)
StartOn(params) ==
    /\ location = params
    /\ linkState = decodeURIComponent(OrElse(params.tx, ""))
    /\ testnetState = (params.testnet = <<"true">>)

\* App after its first render on one of the pages pgs, with one of the
\* catalog documents docs served and one of the indexes idxs: the effect of
\* App.tsx:229-232 has called loadOpcodesJson, whose fetch is in flight
FirstRender(pgs, docs, idxs) ==
    /\ opcodes = <<>>
    /\ catalogDoc \in docs
    /\ fetches = 1
    /\ SelectionIdle
    /\ emulationResult = <<>>
    /\ selectedStep = 0
    /\ views = <<>>
    /\ \E params \in pgs : StartOn(params)
    /\ index \in idxs
    /\ NoResolverCall
    /\ ShardIdle
    /\ StackIdle
    /\ DiffIdle

\* the step browser: the text of the input is the one of the page, and the
\* index holds the transaction on both networks
Init == FirstRender(StartLocations, Documents, {[network \in BOOLEAN |-> "has"]})

\* a key typed into the input: setLink (App.tsx:462)
SetLink ==
    /\ \E text \in TypedLinks : text # linkState /\ linkState' = text
    /\ UNCHANGED <<classifierVars, catalogDoc, emulationResult, selectedStep, views,
                   testnetState, location, stackVars, diffVars>>
    /\ UNCHANGED lookupVars

\* the fetch of loadOpcodesJson answers: setOpcodes(data) (App.tsx:218-223)
FetchSucceeds ==
    /\ fetches > 0
    /\ fetches' = fetches - 1
    /\ opcodes' = catalogDoc
    /\ UNCHANGED <<selectedOpcode, matchingOpcodes, selectedOpcodeStackDiff, hexCode,
                   clicked, crashed, browserVars, stackVars, diffVars>>
    /\ UNCHANGED lookupVars

\* the fetch fails or answers with an error status: the catch only logs
\* (App.tsx:219-226)
FetchFails ==
    /\ fetches > 0
    /\ fetches' = fetches - 1
    /\ UNCHANGED <<opcodes, selectedOpcode, matchingOpcodes, selectedOpcodeStackDiff,
                   hexCode, clicked, crashed, browserVars, stackVars, diffVars>>
    /\ UNCHANGED lookupVars

\* viewTransaction up to its first await (App.tsx:138-145)
ViewTransactionStarts ==
    /\ Len(views) < MaxViews
    /\ views' = Append(Redisplayed(views, 0),
                       ViewCall(linkState, testnetState, "linkToTx", FALSE))
    /\ emulationResult' = <<>>
    /\ UNCHANGED <<classifierVars, catalogDoc, selectedStep, linkState, testnetState,
                   location, stackVars, diffVars>>
    /\ UNCHANGED lookupVars

\* call k goes on after linkToTx has resolved to tx: setTestnet and the
\* call of getEmulationWithStack (App.tsx:145-151)
Resolves(k, tx) ==
    /\ tx.kind = "locator"
    /\ testnetState' = tx.testnet
    /\ views' = [views EXCEPT ![k].pc = "getEmulationWithStack"]

ViewTransactionResolves ==
    /\ \E k \in Suspended("linkToTx") :
          Resolves(k, Settled(views[k]))
    /\ UNCHANGED <<classifierVars, catalogDoc, emulationResult, selectedStep, linkState,
                   location, stackVars, diffVars>>
    /\ UNCHANGED lookupVars

\* getEmulationWithStack has answered call k: setEmulationResult and
\* updateURLWithTx of the render the call was made in (App.tsx:152-153, 161)
ViewTransactionSucceeds ==
    /\ \E k \in Suspended("getEmulationWithStack") :
          /\ location' = updateURLWithTx(location, HashHex(views[k]), views[k].testnet)
          /\ views' = [Redisplayed(views, k) EXCEPT ![k].pc = "returned"]
          /\ \E computeLogs \in Emulations : emulationResult' = <<computeLogs>>
    /\ UNCHANGED <<classifierVars, catalogDoc, selectedStep, linkState, testnetState,
                   stackVars, diffVars>>
    /\ UNCHANGED lookupVars

\* call k enters its catch with the error thrown (App.tsx:154-161)
Catches(k, thrown) ==
    /\ thrown.kind # "locator"
    /\ views' = [views EXCEPT ![k].pc = "caught"]

\* linkToTx has rejected, or getEmulationWithStack has thrown
ViewTransactionFails ==
    /\ \/ \E k \in Suspended("linkToTx") :
             Catches(k, Settled(views[k]))
       \/ \E k \in Suspended("getEmulationWithStack") :
             Catches(k, Rejected("Error", "emulation"))
    /\ UNCHANGED <<classifierVars, catalogDoc, emulationResult, selectedStep, linkState,
                   testnetState, location, stackVars, diffVars>>
    /\ UNCHANGED lookupVars

\* a click on step i (0-based) of the list (App.tsx:666-682)
StepClick ==
    /\ emulationResult # <<>>
    /\ \E i \in 0..(Len(emulationResult[1]) - 1) :
          /\ selectedStep' = i
          /\ Click(emulationResult[1][i + 1])
    /\ UNCHANGED <<catalogDoc, emulationResult, views, linkState, testnetState, location,
                   stackVars, diffVars>>
    /\ UNCHANGED lookupVars

\* prevStep (App.tsx:187-196); computeLogs[selectedStep - 1] is undefined
\* past the end of the logs, and reading its instruction throws
prevStep ==
    /\ selectedStep > 0
    /\ selectedStep' = selectedStep - 1
    /\ IF emulationResult = <<>>
       THEN UNCHANGED classifierVars
       ELSE IF selectedStep - 1 >= Len(emulationResult[1])
            THEN /\ crashed' = IF crashed = "" THEN "prevStep" ELSE crashed
                 /\ UNCHANGED <<opcodes, selectedOpcode, matchingOpcodes,
                                selectedOpcodeStackDiff, hexCode, clicked, fetches>>
            ELSE Click(emulationResult[1][selectedStep])
    /\ UNCHANGED <<catalogDoc, emulationResult, views, linkState, testnetState, location,
                   stackVars, diffVars>>
    /\ UNCHANGED lookupVars

\* nextStep (App.tsx:200-210)
nextStep ==
    /\ emulationResult # <<>>
    /\ selectedStep < Len(emulationResult[1]) - 1
    /\ selectedStep' = selectedStep + 1
    /\ Click(emulationResult[1][selectedStep + 2])
    /\ UNCHANGED <<catalogDoc, emulationResult, views, linkState, testnetState, location,
                   stackVars, diffVars>>
    /\ UNCHANGED lookupVars

\* a click on an entry of 'Similar opcodes' (App.tsx:1066-1108)
SimilarClick ==
    /\ emulationResult # <<>>
    /\ selectedOpcode # None
    /\ Len(matchingOpcodes) > 1
    /\ \E k \in 1..Len(matchingOpcodes) : selectedOpcode' = Some(matchingOpcodes[k])
    /\ UNCHANGED <<opcodes, matchingOpcodes, selectedOpcodeStackDiff, hexCode, clicked,
                   crashed, fetches, browserVars, stackVars, diffVars>>
    /\ UNCHANGED lookupVars

Next ==
    \/ FetchSucceeds
    \/ FetchFails
    \/ ViewTransactionStarts
    \/ ViewTransactionResolves
    \/ ViewTransactionSucceeds
    \/ ViewTransactionFails
    \/ StepClick
    \/ prevStep
    \/ nextStep
    \/ SimilarClick

Spec == Init /\ [][Next]_vars

\* the sessions of viewTransaction: references are typed and resolved, the
\* catalog is never served
InitSession == FirstRender(StartLocations, {<<>>}, SessionIndexes)

NextSession ==
    \/ SetLink
    \/ ViewTransactionStarts
    \/ ViewTransactionResolves
    \/ ViewTransactionSucceeds
    \/ ViewTransactionFails

SpecSession == InitSession /\ [][NextSession]_vars

\* C10: while the catalog is empty, after any step clicks, prevStep and
\* nextStep no opcode is selected, no related record is listed and
\* handleOpcodeClick has raised nothing.
C10_EmptyCatalogNoMatch ==
    opcodes = <<>> =>
        /\ selectedOpcode = None
        /\ matchingOpcodes = <<>>
        /\ selectedOpcodeStackDiff = Null
        /\ crashed # "handleOpcodeClick"

\* the fetch has failed, a step was reached by nextStep or a step click and
\* classified on the empty catalog
C10_Witness ==
    /\ opcodes = <<>>
    /\ catalogDoc = BrowserCatalog
    /\ fetches = 0
    /\ clicked
    /\ hexCode = "implicit RET"
    /\ selectedStep = 1
    /\ selectedOpcode = None
    /\ crashed = ""

\* C27: whenever an emulation result with compute steps is displayed,
\* selectedStep is the index of one of its steps, after any step clicks,
\* prevStep, nextStep and viewTransaction calls.
C27_SelectedStepInRange ==
    (emulationResult # <<>> /\ Len(emulationResult[1]) > 0) =>
        (0 <= selectedStep /\ selectedStep < Len(emulationResult[1]))

\* C28: selectedOpcodeStackDiff is parseOpcodeStackDiff of the stack-effect
\* notation of selectedOpcode, and Indeterminate when no opcode is selected,
\* after any step clicks, prevStep, nextStep and clicks on a similar opcode.
C28_HighlightMatchesOpcode ==
    selectedOpcodeStackDiff = parseOpcodeStackDiff(DocStackOf(selectedOpcode))

\* the calls of viewTransaction that have not ended
InFlight == Suspended("linkToTx") \cup Suspended("getEmulationWithStack")

\* the search parameter tx that call k pushes when it succeeds (App.tsx:134, 154)
PushedTx(k) == <<encodeURIComponent(HexEncode(Settled(views[k]).hash))>>

\* C21: once no call of viewTransaction is in flight and the most recently
\* issued call has succeeded, emulationResult is the value that call has set,
\* the testnet flag is the network of its locator and the tx of the location
\* is its hash, whatever the order in which the calls completed.
C21_NewestCallWins ==
    (views # <<>> /\ InFlight = {} /\ views[Len(views)].pc = "returned") =>
        /\ views[Len(views)].displayed
        /\ testnetState = Settled(views[Len(views)]).testnet
        /\ location.tx = PushedTx(Len(views))

\* the testnet link was viewed first and the bare hash second; the bare hash
\* was resolved on mainnet before the link was resolved, both calls have
\* succeeded and the testnet flag is the one of the older call
C21_OlderCallOverwrites ==
    /\ Len(views) = 2
    /\ views[1].link = TestnetLink
    /\ views[2] = ViewCall(HexA, FALSE, "returned", FALSE)
    /\ views[1].pc = "returned"
    /\ ~Settled(views[2]).testnet
    /\ testnetState

\* C26: every call of viewTransaction passes to linkToTx the testnet flag the
\* page was loaded with, whatever was resolved before it in the session.
C26_HintOfThePage ==
    \A k \in DOMAIN views : views[k].testnet = views[1].testnet

\* C29: a call of viewTransaction that succeeds with a locator of testnet
\* leaves testnet=true and tx=<hash in hex> in the location.
C29_PushedUrlNamesNetwork ==
    [][\A k \in DOMAIN views :
          (/\ k \in Suspended("getEmulationWithStack")
           /\ views'[k].pc = "returned"
           /\ Settled(views[k]).testnet)
          => location' = SearchParams(<<"true">>, PushedTx(k))]_vars

====
